---------------------------- MODULE Spec2Model ----------------------------
(***************************************************************************)
(* fundsTask: login / token validity, clock-aligned waits, the coin        *)
(* listing loop and the fund-flow loop, with the two tables they write.    *)
(*                                                                         *)
(* Time is in whole seconds since a midnight (the container has no zone    *)
(* data, so local time is UTC and a day has 24 * 3600 seconds).            *)
(* A float64 is held as a whole number of tenths.                          *)
(* A JSON string is a sequence of one-character strings.                   *)
(***************************************************************************)
EXTENDS Integers, Sequences, FiniteSets

VARIABLES
    mode,          \* config.Cfg.Mode
    now,           \* time.Now(), seconds
    proc,          \* the process: "running", "exited" (main returned), "panicked"
    mainPc,        \* position of main()
    tokenPair,     \* main's tokenPair
    boot,          \* how each startup step of main ended
    listPc,        \* position of the runCoinInfoTimer goroutine
    listWake,      \* the time its time.Sleep ends
    listToken,     \* processCoinInfoTask's tokenPair.AccountToken
    coinLeft,      \* number of entries of coinList not yet ranged over
    listCycle,     \* history of the current listing cycle
    ffPc,          \* position of the runTradeInflowTimer goroutine
    ffWake,        \* the time its time.Sleep ends
    accessToken,   \* runTradeInflowTimer's accessToken parameter
    currentToken,  \* processTradeInflow's currentToken
    vsTokenIDs,    \* processTradeInflow's vsTokenIDs
    ffIdx,         \* index of the asset being processed (1-based)
    successCount,  \* processTradeInflow's successCount
    validToken,    \* GetTradeInflow's validToken
    tradeLeft,     \* number of entries of tradeList not yet ranged over
    ffSymbol,      \* queryAndSaveTradeInflow's symbol
    ffCycle,       \* history of the current fund-flow cycle
    coinTable,     \* rows of VsCoinInfo
    flowTable,     \* rows of CoinTradeInflowDto
    call           \* one call of a pure function: its input and its result

vars == <<mode, now, proc, mainPc, tokenPair, boot, listPc, listWake, listToken,
          coinLeft, listCycle, ffPc, ffWake, accessToken, currentToken,
          vsTokenIDs, ffIdx, successCount, validToken, tradeLeft, ffSymbol,
          ffCycle, coinTable, flowTable, call>>

-----------------------------------------------------------------------------
(* Bounds of the model *)

\* the clock of Spec starts this many 5-minute periods before 04:00
StartPeriodsBefore4h == 1
\* the clock of Spec is advanced at most this many times
MaxTicks == 1
\* seconds one advance of the clock adds
TickSeconds == 300
\* seconds after its login at which the server's token expires
TokenTTL == 100
\* longest listing page
MaxList == 2
\* longest fund-flow list
MaxTrades == 1
\* largest expiry stamp of a token pair handed to IsValid
MaxExp == 4
\* days of wall-clock times handed to the wait functions
TimerDays == 1
\* longest listing page handed to saveCoinInfoToDB on its own
MaxPage == 3
\* longest fund-flow list handed to saveTradeInflowToDB on its own
MaxFlowList == 2

\* hours of the two timer loops on their own
PaceHours == 9

DaySeconds == 24 * 3600
StartNow == 4 * 3600 - StartPeriodsBefore4h * 300
MaxNow == StartNow + MaxTicks * TickSeconds

-----------------------------------------------------------------------------
(* strconv *)

Digits == <<"0", "1", "2", "3", "4", "5", "6", "7", "8", "9">>
IsDigit(c) == \E i \in 1..10 : Digits[i] = c
DigitVal(c) == (CHOOSE i \in 1..10 : Digits[i] = c) - 1

AllDigits(s) == \A i \in 1..Len(s) : IsDigit(s[i])

RECURSIVE DigitsValue(_)
DigitsValue(s) ==
    IF s = <<>> THEN 0
    ELSE DigitsValue(SubSeq(s, 1, Len(s) - 1)) * 10 + DigitVal(s[Len(s)])

\* strconv.ParseInt(s, 10, 64): an optional sign, then one or more digits.
\* (No string of the model is long enough to leave the int64 range.)
ParseInt(s) ==
    LET signed == s # <<>> /\ s[1] \in {"-", "+"}
        body   == IF signed THEN Tail(s) ELSE s
    IN  IF body = <<>> \/ ~AllDigits(body)
        THEN [err |-> TRUE, v |-> 0]
        ELSE [err |-> FALSE,
              v   |-> IF signed /\ s[1] = "-" THEN 0 - DigitsValue(body)
                      ELSE DigitsValue(body)]

\* strconv.Atoi(s)
Atoi(s) == ParseInt(s)

\* strconv.FormatInt(n, 10), n >= 0 in the model
RECURSIVE FormatInt(_)
FormatInt(n) ==
    IF n < 10 THEN <<Digits[n + 1]>>
    ELSE FormatInt(n \div 10) \o <<Digits[(n % 10) + 1]>>

\* position of the first "." of s, 0 when there is none
DotAt(s) ==
    IF \E i \in 1..Len(s) : s[i] = "."
    THEN CHOOSE i \in 1..Len(s) : s[i] = "." /\ \A j \in 1..(i - 1) : s[j] # "."
    ELSE 0

\* strconv.ParseFloat(s, 64) on decimal literals: an optional sign, digits,
\* an optional "." and digits, at least one digit in all. The value is in
\* tenths; the model's literals carry at most one fractional digit.
ParseFloat(s) ==
    LET signed == s # <<>> /\ s[1] \in {"-", "+"}
        body   == IF signed THEN Tail(s) ELSE s
        dot    == DotAt(body)
        ip     == IF dot = 0 THEN body ELSE SubSeq(body, 1, dot - 1)
        fp     == IF dot = 0 THEN <<>> ELSE SubSeq(body, dot + 1, Len(body))
        ok     == /\ AllDigits(ip) /\ AllDigits(fp)
                  /\ Len(ip) + Len(fp) > 0
                  /\ Len(fp) <= 1
        mag    == DigitsValue(ip) * 10 + DigitsValue(fp)
    IN  IF ~ok THEN [err |-> TRUE, v |-> 0]
        ELSE [err |-> FALSE,
              v   |-> IF signed /\ s[1] = "-" THEN 0 - mag ELSE mag]

\* strconv.ParseBool(s)
ParseBool(s) ==
    IF s \in {<<"1">>, <<"t">>, <<"T">>, <<"t","r","u","e">>,
              <<"T","R","U","E">>, <<"T","r","u","e">>}
    THEN [err |-> FALSE, v |-> TRUE]
    ELSE IF s \in {<<"0">>, <<"f">>, <<"F">>, <<"f","a","l","s","e">>,
                   <<"F","A","L","S","E">>, <<"F","a","l","s","e">>}
    THEN [err |-> FALSE, v |-> FALSE]
    ELSE [err |-> TRUE, v |-> FALSE]

-----------------------------------------------------------------------------
(* JSON values as Go decodes them into interface{}:                        *)
(* t = "nil" (key absent, or null), "str", "num" (float64), "bool",        *)
(* "other" (an array or an object where a scalar is expected).             *)

JNil == [t |-> "nil", s |-> <<>>, n |-> 0, b |-> FALSE]
JStr(x) == [t |-> "str", s |-> x, n |-> 0, b |-> FALSE]
JNum(x) == [t |-> "num", s |-> <<>>, n |-> x, b |-> FALSE]
JBool(x) == [t |-> "bool", s |-> <<>>, n |-> 0, b |-> x]
JOther == [t |-> "other", s |-> <<>>, n |-> 0, b |-> FALSE]

-----------------------------------------------------------------------------
(* auth *)

\* An account or refresh token string: a JWT, which carries the expiry the
\* server gave it (its exp field) and, here, who logged in for it.
NoToken == [by |-> "none", exp |-> 0]
Jwt(who, t) == [by |-> who, exp |-> t + TokenTTL]

NewTokenPair(account, refresh) ==
    [AccountToken |-> account, RefreshToken |-> refresh,
     ExpiresAt |-> 0, RefreshExpiresAt |-> 0]

NoTokenPair == NewTokenPair(NoToken, NoToken)

\* a bug: the token still counts as valid at the second it expires
IsValid_AtExpiry(tp, t) ==
    IF tp.ExpiresAt = 0 THEN TRUE ELSE t <= tp.ExpiresAt

IsValid(tp, t) ==
    IF tp.ExpiresAt = 0 THEN TRUE ELSE t < tp.ExpiresAt

IsRefreshValid(tp, t) ==
    IF tp.RefreshExpiresAt = 0 THEN TRUE ELSE t < tp.RefreshExpiresAt

extractExpiryFromJWT(token) == 0

\* What the login endpoint may answer to the one request Login sends.
LoginResponses(who, t) ==
    { [transport |-> tr, status |-> st, parses |-> pa, Code |-> co,
       Data |-> [account_token |-> Jwt(who, t), refresh_token |-> Jwt(who, t)]] :
        <<tr, st, pa, co>> \in { <<"fail", 0, FALSE, 0>>,
                                 <<"ok", 500, FALSE, 0>>,
                                 <<"ok", 200, FALSE, 0>>,
                                 <<"ok", 200, TRUE, 401>>,
                                 <<"ok", 200, TRUE, 200>> } }

\* the nil *LoginResponse an error comes with
NilLoginResponse ==
    [transport |-> "none", status |-> 0, parses |-> FALSE, Code |-> 0,
     Data |-> [account_token |-> NoToken, refresh_token |-> NoToken]]

\* a bug: the business code of the envelope is not looked at
Login_IgnoresCode(r) ==
    IF r.transport # "ok" THEN [err |-> TRUE, resp |-> NilLoginResponse, requests |-> 1]
    ELSE IF r.status # 200 THEN [err |-> TRUE, resp |-> NilLoginResponse, requests |-> 1]
    ELSE IF ~r.parses THEN [err |-> TRUE, resp |-> NilLoginResponse, requests |-> 1]
    ELSE [err |-> FALSE, resp |-> r, requests |-> 1]

\* Login, r being the answer to the one s.client.Do(req) it makes:
\* [err, resp, requests]
Login(r) ==
    IF r.transport # "ok" THEN [err |-> TRUE, resp |-> NilLoginResponse, requests |-> 1]
    ELSE IF r.status # 200 THEN [err |-> TRUE, resp |-> NilLoginResponse, requests |-> 1]
    ELSE IF ~r.parses THEN [err |-> TRUE, resp |-> NilLoginResponse, requests |-> 1]
    ELSE IF r.Code # 200 THEN [err |-> TRUE, resp |-> NilLoginResponse, requests |-> 1]
    ELSE [err |-> FALSE, resp |-> r, requests |-> 1]

\* GetTokens: [err, tp]
GetTokens(r) ==
    LET l == Login(r)
    IN  IF l.err THEN [err |-> TRUE, tp |-> NoTokenPair]
        ELSE [err |-> FALSE,
              tp  |-> NewTokenPair(l.resp.Data.account_token,
                                   l.resp.Data.refresh_token)]

\* GetTokensWithExpiry: [err, tp]
GetTokensWithExpiry(r) ==
    LET l   == Login(r)
        tp0 == NewTokenPair(l.resp.Data.account_token, l.resp.Data.refresh_token)
        exp == extractExpiryFromJWT(l.resp.Data.account_token)
        rex == extractExpiryFromJWT(l.resp.Data.refresh_token)
        tp1 == IF exp > 0 THEN [tp0 EXCEPT !.ExpiresAt = exp] ELSE tp0
        tp2 == IF rex > 0 THEN [tp1 EXCEPT !.RefreshExpiresAt = rex] ELSE tp1
    IN  IF l.err THEN [err |-> TRUE, tp |-> NoTokenPair]
        ELSE [err |-> FALSE, tp |-> tp2]

\* a bug: the expiry is read from the token string
PairOfString_DecodesExpiry(tok) ==
    [AccountToken |-> tok, RefreshToken |-> NoToken,
     ExpiresAt |-> tok.exp, RefreshExpiresAt |-> 0]

\* The token pair ValidateAndRefreshToken builds from the string it is handed.
PairOfString(tok) ==
    [AccountToken |-> tok, RefreshToken |-> NoToken,
     ExpiresAt |-> 0, RefreshExpiresAt |-> 0]

\* a bug: the validity check is skipped and every call logs in again
ValidateAndRefreshToken_AlwaysLogin(tok, t, r) ==
    LET g == GetTokens(r)
    IN  IF g.err THEN [err |-> TRUE, token |-> NoToken, logins |-> 1]
        ELSE [err |-> FALSE, token |-> g.tp.AccountToken, logins |-> 1]

\* ValidateAndRefreshToken(accessToken) at time t, r the answer a login would
\* get: [err, token, logins]
ValidateAndRefreshToken(tok, t, r) ==
    IF IsValid(PairOfString(tok), t)
    THEN [err |-> FALSE, token |-> tok, logins |-> 0]
    ELSE LET g == GetTokens(r)
         IN  IF g.err THEN [err |-> TRUE, token |-> NoToken, logins |-> 1]
             ELSE [err |-> FALSE, token |-> g.tp.AccountToken, logins |-> 1]

-----------------------------------------------------------------------------
(* utils/timer.go *)

\* a bug: the test of the mode is the wrong way round
ShouldDelay_Inverted == mode # "prod"

ShouldDelay == mode = "prod"

Hour(t) == (t \div 3600) % 24
Minute(t) == (t \div 60) % 60
Second(t) == t % 60
DayStart(t) == t - (t % DaySeconds)
\* time.Date(year, month, day, h, m, 0, 0, loc) on the day of t
DateOn(t, h, m) == DayStart(t) + h * 3600 + m * 60

\* a bug: the minute is rounded up, so a call on a mark does not wait
NextMinute_RoundUp(t) ==
    LET nextMinute == ((Minute(t) + 4) \div 5) * 5
    IN  IF nextMinute >= 60 THEN 0 ELSE nextMinute

\* nextMinute of WaitForNext5MinuteMark
NextMinute(t) ==
    LET nextMinute == ((Minute(t) \div 5) + 1) * 5
    IN  IF nextMinute >= 60 THEN 0 ELSE nextMinute

\* a bug: the wait is five minutes from the call, whatever the time
Next5MinuteMark_FixedInterval(t) == t + 5 * 60

\* nextTime of WaitForNext5MinuteMark: the time its Sleep ends
Next5MinuteMark(t) ==
    LET nextTime == DateOn(t, Hour(t), NextMinute(t))
    IN  IF nextTime < t THEN nextTime + 3600 ELSE nextTime

\* nextHour of WaitForNext4HourMark
NextHour(t) ==
    LET nextHour == ((Hour(t) \div 4) + 1) * 4
    IN  IF nextHour >= 24 THEN 0 ELSE nextHour

\* a bug: a mark that is not in the future is kept
Next4HourMark_NoRollover(t) == DateOn(t, NextHour(t), 0)

\* nextTime of WaitForNext4HourMark: the time its Sleep ends
Next4HourMark(t) ==
    LET nextTime == DateOn(t, NextHour(t), 0)
    IN  IF nextTime < t THEN nextTime + 24 * 3600 ELSE nextTime

-----------------------------------------------------------------------------
(* The listing endpoint and saveCoinInfoToDB *)

\* What the listing endpoint may answer to the one request QueryCoins sends.
\* Data: null, a string, or an object whose "list" is absent, not an array,
\* or an array of len entries.
CoinDatas ==
    { [t |-> "nil", list |-> "nil", len |-> 0],
      [t |-> "str", list |-> "nil", len |-> 0],
      [t |-> "obj", list |-> "nil", len |-> 0],
      [t |-> "obj", list |-> "other", len |-> 0] }
    \cup { [t |-> "obj", list |-> "arr", len |-> n] : n \in 0..MaxList }

CoinResponses ==
    { [transport |-> "fail", status |-> 0, parses |-> FALSE, Code |-> 0,
       Data |-> [t |-> "nil", list |-> "nil", len |-> 0]],
      [transport |-> "ok", status |-> 500, parses |-> FALSE, Code |-> 0,
       Data |-> [t |-> "nil", list |-> "nil", len |-> 0]],
      [transport |-> "ok", status |-> 200, parses |-> FALSE, Code |-> 0,
       Data |-> [t |-> "nil", list |-> "nil", len |-> 0]],
      [transport |-> "ok", status |-> 200, parses |-> TRUE, Code |-> 401,
       Data |-> [t |-> "str", list |-> "nil", len |-> 0]] }
    \cup { [transport |-> "ok", status |-> 200, parses |-> TRUE, Code |-> 200,
            Data |-> d] : d \in CoinDatas }

\* QueryCoins: [err, resp]
QueryCoins(r) ==
    IF r.transport # "ok" THEN [err |-> TRUE, resp |-> r]
    ELSE IF r.status # 200 THEN [err |-> TRUE, resp |-> r]
    ELSE IF ~r.parses THEN [err |-> TRUE, resp |-> r]
    ELSE IF r.Code # 200 THEN [err |-> TRUE, resp |-> r]
    ELSE [err |-> FALSE, resp |-> r]

\* processCoinInfoTask once QueryCoins has returned coinResp: "return" (an
\* error is logged), "panic" (a failed type assertion) or "save".
DecodeCoinData(coinResp) ==
    IF coinResp.Code # 200 THEN "return"
    ELSE IF coinResp.Data.t = "str" THEN "return"
    ELSE IF coinResp.Data.list # "arr" THEN "panic"
    ELSE "save"

\* One element of coinList.
CoinMap(id, name, symbol, cap) ==
    [isMap |-> TRUE, vsTokenId |-> id, name |-> name, symbol |-> symbol,
     marketCap |-> cap]

NotAMap ==
    [isMap |-> FALSE, vsTokenId |-> JNil, name |-> JNil, symbol |-> JNil,
     marketCap |-> JNil]

GoodCoins ==
    { CoinMap(JStr(<<"1">>), JStr(<<"A">>), JStr(<<"a">>), JStr(<<"5">>)),
      CoinMap(JStr(<<"1">>), JStr(<<"B">>), JStr(<<"b">>), JStr(<<"1", ".", "5">>)),
      CoinMap(JStr(<<"1">>), JStr(<<>>), JStr(<<>>), JStr(<<"0">>)),
      CoinMap(JStr(<<"2">>), JStr(<<"C">>), JStr(<<"c">>), JStr(<<"7">>)) }

\* a string that does not parse
UnparsableCoins ==
    { CoinMap(JStr(<<"2">>), JStr(<<"C">>), JStr(<<"c">>), JStr(<<"x">>)),
      CoinMap(JStr(<<"2">>), JStr(<<"C">>), JStr(<<"c">>), JStr(<<>>)),
      CoinMap(JStr(<<"x">>), JStr(<<"C">>), JStr(<<"c">>), JStr(<<"7">>)),
      CoinMap(JStr(<<"1", ".", "5">>), JStr(<<"C">>), JStr(<<"c">>), JStr(<<"7">>)) }

\* tokenID or marketCap absent, or not a string
UntypedCoins ==
    { CoinMap(JNil, JStr(<<"C">>), JStr(<<"c">>), JStr(<<"7">>)),
      CoinMap(JNum(20), JStr(<<"C">>), JStr(<<"c">>), JStr(<<"7">>)),
      CoinMap(JStr(<<"2">>), JStr(<<"C">>), JStr(<<"c">>), JNil),
      CoinMap(JStr(<<"2">>), JStr(<<"C">>), JStr(<<"c">>), JNum(70)) }

\* a valid tokenID and marketCap, but no name or symbol, or no object at all
OtherCoins ==
    { CoinMap(JStr(<<"2">>), JNil, JStr(<<"c">>), JStr(<<"7">>)),
      CoinMap(JStr(<<"2">>), JStr(<<"C">>), JNil, JStr(<<"7">>)),
      NotAMap }

CoinEntries == GoodCoins \cup UnparsableCoins \cup UntypedCoins \cup OtherCoins

\* The entries the listing loop of Spec meets: one spelling of each tokenID
\* and one entry of each way of going wrong.
LoopCoins ==
    { CoinMap(JStr(<<"1">>), JStr(<<"A">>), JStr(<<"a">>), JStr(<<"5">>)),
      CoinMap(JStr(<<"2">>), JStr(<<"C">>), JStr(<<"c">>), JStr(<<"7">>)),
      CoinMap(JStr(<<"2">>), JStr(<<"C">>), JStr(<<"c">>), JStr(<<"x">>)),
      CoinMap(JStr(<<"x">>), JStr(<<"C">>), JStr(<<"c">>), JStr(<<"7">>)),
      CoinMap(JNil, JStr(<<"C">>), JStr(<<"c">>), JStr(<<"7">>)),
      CoinMap(JStr(<<"2">>), JStr(<<"C">>), JStr(<<"c">>), JNum(70)),
      CoinMap(JStr(<<"2">>), JNil, JStr(<<"c">>), JStr(<<"7">>)),
      NotAMap }

\* The claim's malformed entry: tokenID or marketCap absent, not a string, or
\* not parseable as a number.
Malformed(e) == e \in UnparsableCoins \cup UntypedCoins

\* FirstOrCreate on VsCoinInfo: Where("vs_token_id = ?", id).Assign(attrs):
\* a matching row is updated with the non-zero fields of attrs, and when no
\* row matches the record is created.
AssignCoin(row, attrs) ==
    [row EXCEPT !.Name = IF attrs.Name # <<>> THEN attrs.Name ELSE @,
                !.Symbol = IF attrs.Symbol # <<>> THEN attrs.Symbol ELSE @,
                !.MarketCap = IF attrs.MarketCap # 0 THEN attrs.MarketCap ELSE @]

\* a bug: the record is created without looking for a matching row
FirstOrCreateCoin_AlwaysCreate(table, vsCoinInfo) == table \cup {vsCoinInfo}

\* a bug: the table is replaced by the record, and the other rows are lost
FirstOrCreateCoin_ReplacesTable(table, vsCoinInfo) == {vsCoinInfo}

FirstOrCreateCoin(table, vsCoinInfo) ==
    IF \E row \in table : row.VSTokenID = vsCoinInfo.VSTokenID
    THEN { IF row.VSTokenID = vsCoinInfo.VSTokenID
           THEN AssignCoin(row, vsCoinInfo) ELSE row : row \in table }
    ELSE table \cup {vsCoinInfo}

\* The vsCoinInfo record saveCoinInfoToDB builds from an element whose
\* vsTokenId and marketCap parsed.
CoinRecord(e) ==
    [VSTokenID |-> ParseInt(e.vsTokenId.s).v,
     Name      |-> e.name.s,
     Symbol    |-> e.symbol.s,
     MarketCap |-> ParseFloat(e.marketCap.s).v]

\* no record: the zero value of VsCoinInfo
NoCoin == [VSTokenID |-> 0, Name |-> <<>>, Symbol |-> <<>>, MarketCap |-> 0]

\* One iteration of saveCoinInfoToDB's loop over element e, dbOk telling
\* whether the database write succeeds: [outcome, table]
SaveCoin(table, e, dbOk) ==
    IF ~e.isMap THEN [outcome |-> "panic", table |-> table]
    ELSE IF e.vsTokenId.t # "str" THEN [outcome |-> "panic", table |-> table]
    ELSE IF ParseInt(e.vsTokenId.s).err THEN [outcome |-> "skip", table |-> table]
    ELSE IF e.marketCap.t # "str" THEN [outcome |-> "panic", table |-> table]
    ELSE IF ParseFloat(e.marketCap.s).err THEN [outcome |-> "skip", table |-> table]
    ELSE IF e.name.t # "str" \/ e.symbol.t # "str"
         THEN [outcome |-> "panic", table |-> table]
    ELSE IF ~dbOk THEN [outcome |-> "dberr", table |-> table]
    ELSE [outcome |-> "saved",
          table   |-> FirstOrCreateCoin(table, CoinRecord(e))]

-----------------------------------------------------------------------------
(* The fund-flow endpoint and saveTradeInflowToDB *)

\* fmt.Sprintf("%v", value) of a float64, a bool, or an (empty) array
FormatTenths(n) ==
    LET mag == IF n < 0 THEN 0 - n ELSE n
        txt == IF mag % 10 = 0 THEN FormatInt(mag \div 10)
               ELSE FormatInt(mag \div 10) \o <<".">> \o FormatInt(mag % 10)
    IN  IF n < 0 THEN <<"-">> \o txt ELSE txt

getString(value) ==
    IF value.t = "nil" THEN <<>>
    ELSE IF value.t = "str" THEN value.s
    ELSE IF value.t = "num" THEN FormatTenths(value.n)
    ELSE IF value.t = "bool"
         THEN (IF value.b THEN <<"t", "r", "u", "e">> ELSE <<"f", "a", "l", "s", "e">>)
    ELSE <<"[", "]">>

\* int(num) of a float64 held in tenths: truncation toward zero
getInt(value) ==
    IF value.t = "nil" THEN 0
    ELSE IF value.t = "num"
         THEN (IF value.n >= 0 THEN value.n \div 10 ELSE 0 - ((0 - value.n) \div 10))
    ELSE IF value.t = "str" /\ ~Atoi(value.s).err THEN Atoi(value.s).v
    ELSE 0

getFloat64(value) ==
    IF value.t = "nil" THEN 0
    ELSE IF value.t = "num" THEN value.n
    ELSE IF value.t = "str" /\ ~ParseFloat(value.s).err THEN ParseFloat(value.s).v
    ELSE 0

getBool(value) ==
    IF value.t = "nil" THEN FALSE
    ELSE IF value.t = "bool" THEN value.b
    ELSE IF value.t = "str" /\ ~ParseBool(value.s).err THEN ParseBool(value.s).v
    ELSE FALSE

\* What the fund-flow endpoint may answer to the one request GetTradeInflow
\* sends. Data: null, a string, or an object with "symbol" and a
\* "coinTradeInflowDtoList" that is absent, not an array, or an array of len
\* entries.
TradeDatas ==
    { [t |-> "nil", symbol |-> JNil, list |-> "nil", len |-> 0],
      [t |-> "str", symbol |-> JNil, list |-> "nil", len |-> 0],
      [t |-> "obj", symbol |-> JStr(<<"a">>), list |-> "nil", len |-> 0],
      [t |-> "obj", symbol |-> JStr(<<"a">>), list |-> "other", len |-> 0] }
    \cup { [t |-> "obj", symbol |-> sy, list |-> "arr", len |-> n] :
             sy \in {JStr(<<"a">>)}, n \in 0..MaxTrades }

TradeResponses ==
    { [transport |-> "fail", parses |-> FALSE, Code |-> 0,
       Data |-> [t |-> "nil", symbol |-> JNil, list |-> "nil", len |-> 0]],
      [transport |-> "ok", parses |-> FALSE, Code |-> 0,
       Data |-> [t |-> "nil", symbol |-> JNil, list |-> "nil", len |-> 0]],
      [transport |-> "ok", parses |-> TRUE, Code |-> 401,
       Data |-> [t |-> "nil", symbol |-> JNil, list |-> "nil", len |-> 0]],
      [transport |-> "ok", parses |-> TRUE, Code |-> 500,
       Data |-> [t |-> "obj", symbol |-> JStr(<<"a">>), list |-> "arr", len |-> 1]] }
    \cup { [transport |-> "ok", parses |-> TRUE, Code |-> 200, Data |-> d] :
             d \in TradeDatas }

\* GetTradeInflow after the token is validated: the request, the read and
\* the unmarshal. [err, resp]
SendTradeInflow(r) ==
    IF r.transport # "ok" THEN [err |-> TRUE, resp |-> r]
    ELSE IF ~r.parses THEN [err |-> TRUE, resp |-> r]
    ELSE [err |-> FALSE, resp |-> r]

\* The kind of answer r is: "fail" (no answer, or a body that does not
\* parse), "code" (a business code other than 200), "str" (data that is no
\* object), "nolist" (no coinTradeInflowDtoList), "notarr" (one that is no
\* array) or "arr".
TradeShape(r) ==
    IF r.transport # "ok" \/ ~r.parses THEN "fail"
    ELSE IF r.Code # 200 THEN "code"
    ELSE IF r.Data.t = "str" THEN "str"
    ELSE IF r.Data.list = "nil" THEN "nolist"
    ELSE IF r.Data.list # "arr" THEN "notarr"
    ELSE "arr"

\* a bug: the business code of the envelope is not looked at
DecodeTradeData_IgnoresCode(resp) ==
    IF resp.Data.t = "str" THEN "error"
    ELSE IF resp.Data.list = "nil" THEN "empty"
    ELSE IF resp.Data.list # "arr" THEN "panic"
    ELSE "save"

\* a bug: a payload without coinTradeInflowDtoList is reported as an error
DecodeTradeData_MissingListIsError(resp) ==
    IF resp.Code # 200 THEN "error"
    ELSE IF resp.Data.t = "str" THEN "error"
    ELSE IF resp.Data.list = "nil" THEN "error"
    ELSE IF resp.Data.list # "arr" THEN "panic"
    ELSE "save"

\* queryAndSaveTradeInflow once GetTradeInflow has returned resp: "error",
\* "empty" (no trade inflow data found: return nil), "panic" (a failed type
\* assertion) or "save".
DecodeTradeData(resp) ==
    IF resp.Code # 200 THEN "error"
    ELSE IF resp.Data.t = "str" THEN "error"
    ELSE IF resp.Data.list = "nil" THEN "empty"
    ELSE IF resp.Data.list # "arr" THEN "panic"
    ELSE "save"

\* One element of tradeList. stopTradeInflow stands for the twelve float
\* fields and stop for the two bool fields: each is read by the same helper.
TradeMap(time, enum, stop, inflow) ==
    [isMap |-> TRUE, time |-> time, timeParticleEnum |-> enum, stop |-> stop,
     stopTradeInflow |-> inflow]

NotATradeMap ==
    [isMap |-> FALSE, time |-> JNil, timeParticleEnum |-> JNil, stop |-> JNil,
     stopTradeInflow |-> JNil]

\* The elements the fund-flow loop of Spec meets: an object, and an element
\* that is no object.
TradeEntries ==
    { TradeMap(JStr(<<"t", "1">>), JNum(10), JBool(TRUE), JNum(15)),
      NotATradeMap }

\* FirstOrCreate on CoinTradeInflowDto: Where("symbol = ? AND time = ?")
\* .Assign(&tradeInflow): a matching row is updated with the non-zero fields
\* of the record, and when no row matches the record is created.
AssignFlow(row, attrs) ==
    [row EXCEPT
        !.TimeParticleEnum = IF attrs.TimeParticleEnum # 0
                             THEN attrs.TimeParticleEnum ELSE @,
        !.Stop = IF attrs.Stop THEN TRUE ELSE @,
        !.StopTradeInflow = IF attrs.StopTradeInflow # 0
                            THEN attrs.StopTradeInflow ELSE @]

\* FirstOrCreate(&tradeInflow) begins by reading the matching row into
\* tradeInflow, and Assign was handed a pointer to that same struct: by the
\* time the update is built, the struct holds the stored row.
ScannedFlow(row, tradeInflow) == row

FirstOrCreateFlow(table, tradeInflow) ==
    IF \E row \in table : row.Symbol = tradeInflow.Symbol /\ row.Time = tradeInflow.Time
    THEN { IF row.Symbol = tradeInflow.Symbol /\ row.Time = tradeInflow.Time
           THEN AssignFlow(row, ScannedFlow(row, tradeInflow)) ELSE row : row \in table }
    ELSE table \cup {tradeInflow}

\* The tradeInflow record saveTradeInflowToDB builds from an element.
FlowRecord(e, symbol) ==
    [Symbol           |-> symbol,
     TimeParticleEnum |-> getInt(e.timeParticleEnum),
     Time             |-> getString(e.time),
     Stop             |-> getBool(e.stop),
     StopTradeInflow  |-> getFloat64(e.stopTradeInflow)]

\* no record: the zero value of CoinTradeInflowDto
NoFlow ==
    [Symbol |-> <<>>, TimeParticleEnum |-> 0, Time |-> <<>>, Stop |-> FALSE,
     StopTradeInflow |-> 0]

\* One iteration of saveTradeInflowToDB's loop over element e:
\* [outcome, table]
SaveTrade(table, e, symbol, dbOk) ==
    IF ~e.isMap THEN [outcome |-> "panic", table |-> table]
    ELSE IF ~dbOk THEN [outcome |-> "dberr", table |-> table]
    ELSE [outcome |-> "saved",
          table   |-> FirstOrCreateFlow(table, FlowRecord(e, symbol))]

\* The orders in which Pluck may return the rows' vs_token_id (the query has
\* no ORDER BY).
Orders(S) ==
    { q \in UNION { [1..n -> S] : n \in {Cardinality(S)} } :
        \A i, j \in 1..Len(q) : i # j => q[i] # q[j] }

-----------------------------------------------------------------------------
(* The process *)

\* config.Cfg.Mode is any string of the configuration file
Modes == {"prod", "dev", "test"}

NoCall == [op |-> "none", in |-> 0, out |-> 0, ok |-> FALSE, tp |-> NoTokenPair]

\* no request sent
NoRequest == [search |-> <<"-">>, isBinance |-> FALSE, page |-> 0, pageSize |-> 0]

\* QueryCoins' requestBody
CoinQueryRequest == [search |-> <<>>, isBinance |-> TRUE, page |-> 1, pageSize |-> 100]

\* history of a listing cycle: the error that ended it, the rows it upserted,
\* the waits made before it, its logins, its listing requests, and the body
\* and the token of the last of them
NewListCycle ==
    [err |-> "none", ups |-> 0, waits |-> <<>>, logins |-> 0, queries |-> 0,
     request |-> NoRequest, queriedWith |-> NoToken]

\* one call of ValidateAndRefreshToken, as the fund-flow loop made it: the
\* token handed in, what IsValid said of it, whether the server had expired
\* it, the logins made, and the result
NoValidate ==
    [called |-> FALSE, handed |-> NoToken, valid |-> FALSE,
     expired |-> FALSE, logins |-> 0,
     err |-> FALSE, returned |-> NoToken]

\* history of a fund-flow cycle: the assets whose processing began, the last
\* ValidateAndRefreshToken call, whether a call was handed a token the server
\* had expired, the token of the cycle's last re-login, the token of the last
\* fetch, the kind of answer the current asset's fetch got, the assets for
\* which queryAndSaveTradeInflow returned an error, the waits made before the
\* cycle, how getVSTokenIDsFromDB ended and the tokenIDs the table held then,
\* whether a row was upserted and whether the save of a row failed for the
\* current asset, and the summary
NewFundCycle ==
    [done |-> <<>>, vr |-> NoValidate, expiredSeen |-> FALSE,
     relogin |-> NoToken, fetchedWith |-> NoToken,
     shape |-> "none", errs |-> 0,
     waits |-> <<>>, loaded |-> "-", snapshot |-> {}, upserted |-> FALSE,
     dberr |-> FALSE,
     summary |-> [logged |-> FALSE, total |-> 0, success |-> 0, failed |-> 0]]

\* the startup steps of main, none of them taken yet
NoBoot == [config |-> "-", db |-> "-", migrate |-> "-", login |-> "-"]

mainVars == <<mainPc, tokenPair, boot>>
listVars == <<listPc, listWake, listToken, coinLeft, listCycle>>
ffLocals == <<currentToken, vsTokenIDs, ffIdx, successCount, validToken,
              tradeLeft, ffSymbol>>
ffVars == <<ffPc, ffWake, accessToken, ffLocals, ffCycle>>

\* the variables as main() finds them
Boot ==
    /\ proc = "running"
    /\ mainPc = "config"
    /\ tokenPair = NoTokenPair
    /\ boot = NoBoot
    /\ listPc = "off"
    /\ listWake = 0
    /\ listToken = NoToken
    /\ coinLeft = 0
    /\ listCycle = NewListCycle
    /\ ffPc = "off"
    /\ ffWake = 0
    /\ accessToken = NoToken
    /\ currentToken = NoToken
    /\ vsTokenIDs = <<>>
    /\ ffIdx = 0
    /\ successCount = 0
    /\ validToken = NoToken
    /\ tradeLeft = 0
    /\ ffSymbol = <<>>
    /\ ffCycle = NewFundCycle
    /\ flowTable = {}

Init ==
    /\ mode \in Modes
    /\ now = StartNow
    /\ coinTable = {}
    /\ call = NoCall
    /\ Boot

(* main *)

\* config.Init(): panics when the file cannot be read or parsed (and
\* logger.Init(config.Cfg.Mode) panics on the nil Cfg a file holding null
\* leaves)
MainConfig ==
    /\ proc = "running" /\ mainPc = "config"
    /\ \E ok \in BOOLEAN :
         IF ok THEN /\ mainPc' = "initdb" /\ proc' = proc
                    /\ boot' = [boot EXCEPT !.config = "ok"]
         ELSE /\ mainPc' = mainPc /\ proc' = "panic-main"
              /\ boot' = [boot EXCEPT !.config = "fail"]
    /\ UNCHANGED <<mode, now, tokenPair, listVars, ffVars, coinTable, flowTable, call>>

\* database.InitDB(...) returns nothing. When the database is unreachable it
\* ends the process, panics, or returns and leaves a handle that cannot be
\* used.
MainInitDB ==
    /\ proc = "running" /\ mainPc = "initdb"
    /\ \E ok \in BOOLEAN :
         IF ok THEN /\ mainPc' = "migrate" /\ proc' = proc
                    /\ boot' = [boot EXCEPT !.db = "ok"]
         ELSE /\ boot' = [boot EXCEPT !.db = "fail"]
              /\ \/ mainPc' = mainPc /\ proc' = "exited"
                 \/ mainPc' = mainPc /\ proc' = "panic-main"
                 \/ mainPc' = "migrate" /\ proc' = proc
    /\ UNCHANGED <<mode, now, tokenPair, listVars, ffVars, coinTable, flowTable, call>>

\* a bug: the error of AutoMigrate is logged and main goes on
MainMigrate_IgnoresError ==
    /\ proc = "running" /\ mainPc = "migrate"
    /\ \E ok \in BOOLEAN :
         /\ mainPc' = "login" /\ proc' = proc
         /\ boot' = [boot EXCEPT !.migrate = IF ok /\ boot.db = "ok"
                                             THEN "ok" ELSE "fail"]
    /\ UNCHANGED <<mode, now, tokenPair, listVars, ffVars, coinTable, flowTable, call>>

\* database.AutoMigrate(...): main returns on an error. Without a usable
\* handle it cannot succeed: it returns an error or panics.
MainMigrate ==
    /\ proc = "running" /\ mainPc = "migrate"
    /\ \E ok \in BOOLEAN :
         IF ok /\ boot.db = "ok"
         THEN /\ mainPc' = "login" /\ proc' = proc
              /\ boot' = [boot EXCEPT !.migrate = "ok"]
         ELSE /\ mainPc' = mainPc
              /\ boot' = [boot EXCEPT !.migrate = "fail"]
              /\ \/ proc' = "exited"
                 \/ boot.db = "fail" /\ proc' = "panic-main"
    /\ UNCHANGED <<mode, now, tokenPair, listVars, ffVars, coinTable, flowTable, call>>

\* authService.GetTokens(): main returns on an error
MainLogin ==
    /\ proc = "running" /\ mainPc = "login"
    /\ \E r \in LoginResponses("main", now) :
         LET g == GetTokens(r)
         IN  IF g.err
             THEN /\ mainPc' = mainPc /\ proc' = "exited" /\ tokenPair' = tokenPair
                  /\ boot' = [boot EXCEPT !.login = "fail"]
             ELSE /\ mainPc' = "launch" /\ proc' = proc /\ tokenPair' = g.tp
                  /\ boot' = [boot EXCEPT !.login = "ok"]
    /\ UNCHANGED <<mode, now, listVars, ffVars, coinTable, flowTable, call>>

\* go funds.StartTask(nil); go funds.StartTradeInflowTask(tokenPair); select {}
MainLaunch ==
    /\ proc = "running" /\ mainPc = "launch"
    /\ mainPc' = "blocked"
    /\ listPc' = "top"
    /\ ffPc' = "top"
    /\ accessToken' = tokenPair.AccountToken
    /\ UNCHANGED <<mode, now, proc, tokenPair, boot, listWake, listToken, coinLeft,
                   listCycle, ffWake, ffLocals, ffCycle, coinTable, flowTable, call>>

(* runCoinInfoTimer *)

\* the top of the for loop: WaitForNext4HourMark when ShouldDelay
ListTop ==
    /\ proc = "running" /\ listPc = "top"
    /\ IF ShouldDelay
       THEN listPc' = "sleep" /\ listWake' = Next4HourMark(now)
       ELSE listPc' = "login" /\ listWake' = listWake
    /\ listCycle' = [NewListCycle EXCEPT
                        !.waits = IF ShouldDelay THEN <<"4h">> ELSE <<>>]
    /\ listToken' = NoToken
    /\ coinLeft' = 0
    /\ UNCHANGED <<mode, now, proc, mainVars, ffVars, coinTable, flowTable, call>>

\* time.Sleep(delay) returns
ListWakeUp ==
    /\ proc = "running" /\ listPc = "sleep"
    /\ now >= listWake
    /\ listPc' = "login"
    /\ UNCHANGED <<mode, now, proc, mainVars, listWake, listToken, coinLeft,
                   listCycle, ffVars, coinTable, flowTable, call>>

\* a bug: the cycle does not log in and takes the token of startup
ListLogin_ReusesStartupToken ==
    /\ proc = "running" /\ listPc = "login"
    /\ listPc' = "query"
    /\ listToken' = tokenPair.AccountToken
    /\ UNCHANGED <<mode, now, proc, mainVars, listWake, coinLeft, listCycle,
                   ffVars, coinTable, flowTable, call>>

\* a bug: a failed login is made again at once, up to three times
ListLogin_RetriesOnError ==
    /\ proc = "running" /\ listPc = "login"
    /\ \E r \in LoginResponses("list", now) :
         LET g == GetTokens(r)
         IN  IF g.err
             THEN /\ listPc' = IF listCycle.logins < 2 THEN "login" ELSE "top"
                  /\ listToken' = listToken
                  /\ listCycle' = [listCycle EXCEPT !.err = "login",
                                                    !.logins = @ + 1]
             ELSE /\ listPc' = "query"
                  /\ listToken' = g.tp.AccountToken
                  /\ listCycle' = [listCycle EXCEPT !.logins = @ + 1]
    /\ UNCHANGED <<mode, now, proc, mainVars, listWake, coinLeft, ffVars,
                   coinTable, flowTable, call>>

\* processCoinInfoTask: authService.GetTokens()
ListLogin ==
    /\ proc = "running" /\ listPc = "login"
    /\ \E r \in LoginResponses("list", now) :
         LET g == GetTokens(r)
         IN  IF g.err
             THEN /\ listPc' = "top"
                  /\ listToken' = listToken
                  /\ listCycle' = [listCycle EXCEPT !.err = "login",
                                                    !.logins = @ + 1]
             ELSE /\ listPc' = "query"
                  /\ listToken' = g.tp.AccountToken
                  /\ listCycle' = [listCycle EXCEPT !.logins = @ + 1]
    /\ UNCHANGED <<mode, now, proc, mainVars, listWake, coinLeft, ffVars,
                   coinTable, flowTable, call>>

\* processCoinInfoTask: coinService.QueryCoins(tokenPair.AccountToken) and the
\* decoding of coinResp.Data, up to the call of saveCoinInfoToDB
ListQuery ==
    /\ proc = "running" /\ listPc = "query"
    /\ \E r \in CoinResponses :
         LET q == QueryCoins(r)
             d == DecodeCoinData(q.resp)
             h == [listCycle EXCEPT !.queries = @ + 1,
                                    !.request = CoinQueryRequest,
                                    !.queriedWith = listToken]
         IN  IF q.err
             THEN /\ listPc' = "top" /\ proc' = proc /\ coinLeft' = coinLeft
                  /\ listCycle' = [h EXCEPT !.err = "query"]
             ELSE IF d = "return"
             THEN /\ listPc' = "top" /\ proc' = proc /\ coinLeft' = coinLeft
                  /\ listCycle' = [h EXCEPT !.err = "decode"]
             ELSE IF d = "panic"
             THEN /\ listPc' = listPc /\ proc' = "panic-list" /\ coinLeft' = coinLeft
                  /\ listCycle' = [h EXCEPT !.err = "shape"]
             ELSE /\ listPc' = "save" /\ proc' = proc /\ coinLeft' = q.resp.Data.len
                  /\ listCycle' = h
    /\ UNCHANGED <<mode, now, mainVars, listWake, listToken, ffVars, coinTable,
                   flowTable, call>>

\* saveCoinInfoToDB: one iteration of the loop over coinList. The entries of
\* a page do not depend on the state; each is chosen when the loop reaches it.
\* The database answers only for an entry that reaches it.
ListSave ==
    /\ proc = "running" /\ listPc = "save" /\ coinLeft > 0
    /\ \E e \in LoopCoins :
       \E dbOk \in IF SaveCoin(coinTable, e, TRUE).outcome = "saved"
                   THEN BOOLEAN ELSE {TRUE} :
         LET r == SaveCoin(coinTable, e, dbOk)
         IN  IF r.outcome = "panic"
             THEN /\ proc' = "panic-list"
                  /\ UNCHANGED <<coinLeft, coinTable, listCycle>>
             ELSE /\ proc' = proc
                  /\ coinLeft' = coinLeft - 1
                  /\ coinTable' = r.table
                  /\ listCycle' = IF r.outcome = "saved"
                                  THEN [listCycle EXCEPT !.ups = @ + 1]
                                  ELSE listCycle
    /\ UNCHANGED <<mode, now, mainVars, listPc, listWake, listToken, ffVars,
                   flowTable, call>>

\* saveCoinInfoToDB returns nil and processCoinInfoTask returns
ListDone ==
    /\ proc = "running" /\ listPc = "save" /\ coinLeft = 0
    /\ listPc' = "top"
    /\ UNCHANGED <<mode, now, proc, mainVars, listWake, listToken, coinLeft,
                   listCycle, ffVars, coinTable, flowTable, call>>

(* runTradeInflowTimer *)

\* a bug: what a cycle left in its variables is still there in the next
FundTop_KeepsLocals ==
    /\ proc = "running" /\ ffPc = "top"
    /\ IF ShouldDelay
       THEN ffPc' = "sleep" /\ ffWake' = Next5MinuteMark(now)
       ELSE ffPc' = "load" /\ ffWake' = ffWake
    /\ ffCycle' = [NewFundCycle EXCEPT
                      !.waits = IF ShouldDelay THEN <<"5m">> ELSE <<>>]
    /\ UNCHANGED <<mode, now, proc, mainVars, listVars, accessToken, ffLocals,
                   coinTable, flowTable, call>>

\* the top of the for loop: WaitForNext5MinuteMark when ShouldDelay
FundTop ==
    /\ proc = "running" /\ ffPc = "top"
    /\ IF ShouldDelay
       THEN ffPc' = "sleep" /\ ffWake' = Next5MinuteMark(now)
       ELSE ffPc' = "load" /\ ffWake' = ffWake
    /\ ffCycle' = [NewFundCycle EXCEPT
                      !.waits = IF ShouldDelay THEN <<"5m">> ELSE <<>>]
    /\ currentToken' = NoToken
    /\ vsTokenIDs' = <<>>
    /\ ffIdx' = 0
    /\ successCount' = 0
    /\ validToken' = NoToken
    /\ tradeLeft' = 0
    /\ ffSymbol' = <<>>
    /\ UNCHANGED <<mode, now, proc, mainVars, listVars, accessToken, coinTable,
                   flowTable, call>>

\* time.Sleep(delay) returns
FundWakeUp ==
    /\ proc = "running" /\ ffPc = "sleep"
    /\ now >= ffWake
    /\ ffPc' = "load"
    /\ UNCHANGED <<mode, now, proc, mainVars, listVars, ffWake, accessToken,
                   ffLocals, ffCycle, coinTable, flowTable, call>>

\* the pc after the loop body of processTradeInflow ends for asset ffIdx
AfterAsset == IF ffIdx + 1 > Len(vsTokenIDs) THEN "summary" ELSE "validate"

\* processTradeInflow: getVSTokenIDsFromDB(), successCount := 0,
\* currentToken := accessToken
FundLoad ==
    /\ proc = "running" /\ ffPc = "load"
    /\ \E ok \in BOOLEAN :
         IF ~ok
         THEN /\ ffPc' = "top"
              /\ ffCycle' = [ffCycle EXCEPT !.loaded = "fail"]
              /\ UNCHANGED <<vsTokenIDs, ffIdx, successCount, currentToken>>
         ELSE \E ids \in Orders({row.VSTokenID : row \in coinTable}) :
                /\ vsTokenIDs' = ids
                /\ ffIdx' = 1
                /\ successCount' = 0
                /\ currentToken' = accessToken
                /\ ffPc' = IF Len(ids) = 0 THEN "summary" ELSE "validate"
                /\ ffCycle' = [ffCycle EXCEPT
                                  !.loaded = "ok",
                                  !.snapshot = {row.VSTokenID : row \in coinTable}]
    /\ UNCHANGED <<mode, now, proc, mainVars, listVars, ffWake, accessToken,
                   validToken, tradeLeft, ffSymbol, coinTable, flowTable, call>>

\* queryAndSaveTradeInflow(service, &currentToken, vsTokenID) up to
\* GetTradeInflow's ValidateAndRefreshToken(accessToken)
FundValidate ==
    /\ proc = "running" /\ ffPc = "validate"
    /\ \E r \in LoginResponses("fund", now) :
         LET v == ValidateAndRefreshToken(currentToken, now, r)
             h == [ffCycle EXCEPT
                     !.done = Append(@, vsTokenIDs[ffIdx]),
                     !.vr = [called |-> TRUE, handed |-> currentToken,
                             valid |-> IsValid(PairOfString(currentToken), now),
                             expired |-> currentToken.exp < now,
                             logins |-> v.logins, err |-> v.err,
                             returned |-> v.token],
                     !.expiredSeen = @ \/ currentToken.exp < now,
                     !.relogin = IF v.logins > 0 /\ ~v.err THEN v.token ELSE @,
                     !.shape = "none",
                     !.upserted = FALSE,
                     !.dberr = FALSE,
                     !.errs = IF v.err THEN @ + 1 ELSE @]
         IN  /\ ffCycle' = h
             /\ IF v.err
                THEN /\ ffPc' = AfterAsset
                     /\ ffIdx' = ffIdx + 1
                     /\ validToken' = validToken
                ELSE /\ ffPc' = "fetch"
                     /\ ffIdx' = ffIdx
                     /\ validToken' = v.token
    /\ UNCHANGED <<mode, now, proc, mainVars, listVars, ffWake, accessToken,
                   currentToken, vsTokenIDs, successCount, tradeLeft, ffSymbol,
                   coinTable, flowTable, call>>

\* GetTradeInflow's request with validToken, and queryAndSaveTradeInflow's
\* decoding of resp.Data up to the call of saveTradeInflowToDB
FundFetch ==
    /\ proc = "running" /\ ffPc = "fetch"
    /\ \E r \in TradeResponses :
         LET q == SendTradeInflow(r)
             d == IF q.err THEN "error" ELSE DecodeTradeData(q.resp)
         IN  /\ ffCycle' = [ffCycle EXCEPT
                               !.fetchedWith = validToken,
                               !.shape = TradeShape(r),
                               !.errs = IF d = "error" THEN @ + 1 ELSE @]
             /\ IF d = "error"
                THEN /\ ffPc' = AfterAsset /\ ffIdx' = ffIdx + 1
                     /\ UNCHANGED <<proc, successCount, tradeLeft, ffSymbol>>
                ELSE IF d = "empty"
                THEN /\ ffPc' = AfterAsset /\ ffIdx' = ffIdx + 1
                     /\ successCount' = successCount + 1
                     /\ UNCHANGED <<proc, tradeLeft, ffSymbol>>
                ELSE IF d = "panic"
                THEN /\ proc' = "panic-fund"
                     /\ UNCHANGED <<ffPc, ffIdx, successCount, tradeLeft, ffSymbol>>
                ELSE /\ ffPc' = "save"
                     /\ tradeLeft' = q.resp.Data.len
                     /\ ffSymbol' = getString(q.resp.Data.symbol)
                     /\ UNCHANGED <<proc, ffIdx, successCount>>
    /\ UNCHANGED <<mode, now, mainVars, listVars, ffWake, accessToken,
                   currentToken, vsTokenIDs, validToken, coinTable, flowTable,
                   call>>

\* a bug: the error of a row's save is returned, and the asset fails
FundSave_DbErrorFailsAsset ==
    /\ proc = "running" /\ ffPc = "save" /\ tradeLeft > 0
    /\ \E e \in TradeEntries, dbOk \in BOOLEAN :
         LET r == SaveTrade(flowTable, e, ffSymbol, dbOk)
         IN  IF r.outcome = "panic"
             THEN /\ proc' = "panic-fund"
                  /\ UNCHANGED <<ffPc, ffIdx, tradeLeft, flowTable, ffCycle>>
             ELSE IF r.outcome = "saved"
             THEN /\ proc' = proc
                  /\ tradeLeft' = tradeLeft - 1
                  /\ flowTable' = r.table
                  /\ ffCycle' = [ffCycle EXCEPT !.upserted = TRUE]
                  /\ UNCHANGED <<ffPc, ffIdx>>
             ELSE /\ proc' = proc
                  /\ ffPc' = AfterAsset
                  /\ ffIdx' = ffIdx + 1
                  /\ ffCycle' = [ffCycle EXCEPT !.dberr = TRUE, !.errs = @ + 1]
                  /\ UNCHANGED <<tradeLeft, flowTable>>
    /\ UNCHANGED <<mode, now, mainVars, listVars, ffWake, accessToken,
                   currentToken, vsTokenIDs, successCount, validToken,
                   ffSymbol, coinTable, call>>

\* saveTradeInflowToDB: one iteration of the loop over tradeList. The entries
\* of a list do not depend on the state; each is chosen when the loop reaches
\* it.
FundSave ==
    /\ proc = "running" /\ ffPc = "save" /\ tradeLeft > 0
    /\ \E e \in TradeEntries, dbOk \in BOOLEAN :
         LET r == SaveTrade(flowTable, e, ffSymbol, dbOk)
         IN  IF r.outcome = "panic"
             THEN /\ proc' = "panic-fund"
                  /\ UNCHANGED <<tradeLeft, flowTable, ffCycle>>
             ELSE /\ proc' = proc
                  /\ tradeLeft' = tradeLeft - 1
                  /\ flowTable' = r.table
                  /\ ffCycle' = IF r.outcome = "saved"
                                THEN [ffCycle EXCEPT !.upserted = TRUE]
                                ELSE [ffCycle EXCEPT !.dberr = TRUE]
    /\ UNCHANGED <<mode, now, mainVars, listVars, ffPc, ffWake, accessToken,
                   currentToken, vsTokenIDs, ffIdx, successCount, validToken,
                   ffSymbol, coinTable, call>>

\* a bug: the asset IDs are read again after each asset
FundSaved_RereadsIDs ==
    /\ proc = "running" /\ ffPc = "save" /\ tradeLeft = 0
    /\ \E ids \in Orders({row.VSTokenID : row \in coinTable}) :
         /\ vsTokenIDs' = ids
         /\ ffPc' = IF ffIdx + 1 > Len(ids) THEN "summary" ELSE "validate"
    /\ ffIdx' = ffIdx + 1
    /\ successCount' = successCount + 1
    /\ UNCHANGED <<mode, now, proc, mainVars, listVars, ffWake, accessToken,
                   currentToken, validToken, tradeLeft, ffSymbol,
                   ffCycle, coinTable, flowTable, call>>

\* saveTradeInflowToDB returns nil: successCount++
FundSaved ==
    /\ proc = "running" /\ ffPc = "save" /\ tradeLeft = 0
    /\ ffPc' = AfterAsset
    /\ ffIdx' = ffIdx + 1
    /\ successCount' = successCount + 1
    /\ UNCHANGED <<mode, now, proc, mainVars, listVars, ffWake, accessToken,
                   currentToken, vsTokenIDs, validToken, tradeLeft, ffSymbol,
                   ffCycle, coinTable, flowTable, call>>

\* processTradeInflow logs (total, success, failed) and returns
FundSummary ==
    /\ proc = "running" /\ ffPc = "summary"
    /\ ffPc' = "top"
    /\ ffCycle' = [ffCycle EXCEPT
                     !.summary = [logged |-> TRUE,
                                  total |-> Len(vsTokenIDs),
                                  success |-> successCount,
                                  failed |-> Len(vsTokenIDs) - successCount]]
    /\ UNCHANGED <<mode, now, proc, mainVars, listVars, ffWake, accessToken,
                   ffLocals, coinTable, flowTable, call>>

(* the clock *)

\* the sleeps that have not ended
Sleepers ==
    (IF listPc = "sleep" THEN {listWake} ELSE {})
    \cup (IF ffPc = "sleep" THEN {ffWake} ELSE {})

\* Time passes, up to the next end of a sleep: a goroutine whose sleep has
\* ended runs before the clock moves on.
Tick ==
    /\ proc = "running"
    /\ now + TickSeconds <= MaxNow
    /\ \A w \in Sleepers : w > now
    /\ now' = IF \E w \in Sleepers : w < now + TickSeconds
              THEN CHOOSE w \in Sleepers : \A x \in Sleepers : w <= x
              ELSE now + TickSeconds
    /\ UNCHANGED <<mode, proc, mainVars, listVars, ffVars, coinTable, flowTable, call>>

Next ==
    \/ MainConfig \/ MainInitDB \/ MainMigrate \/ MainLogin \/ MainLaunch
    \/ ListTop \/ ListWakeUp \/ ListLogin \/ ListQuery \/ ListSave \/ ListDone
    \/ FundTop \/ FundWakeUp \/ FundLoad \/ FundValidate \/ FundFetch
    \/ FundSave \/ FundSaved \/ FundSummary
    \/ Tick

Spec == Init /\ [][Next]_vars

-----------------------------------------------------------------------------
(* TokenPair.IsValid and TokenPair.IsRefreshValid on their own: every token *)
(* pair with stamps in -1..MaxExp, at every time in 0..MaxExp + 1.          *)

TokenPairs ==
    { [AccountToken |-> NoToken, RefreshToken |-> NoToken,
       ExpiresAt |-> e, RefreshExpiresAt |-> r] :
        e \in (0 - 1)..MaxExp, r \in (0 - 1)..MaxExp }

InitToken ==
    /\ mode = "dev"
    /\ now \in 0..(MaxExp + 1)
    /\ coinTable = {}
    /\ \E tp \in TokenPairs : call = [NoCall EXCEPT !.op = "TokenPair", !.tp = tp]
    /\ Boot

CallIsValid ==
    /\ call.op = "TokenPair"
    /\ call' = [call EXCEPT !.op = "IsValid", !.ok = IsValid(call.tp, now)]
    /\ UNCHANGED <<mode, now, proc, mainVars, listVars, ffVars, coinTable, flowTable>>

CallIsRefreshValid ==
    /\ call.op = "TokenPair"
    /\ call' = [call EXCEPT !.op = "IsRefreshValid", !.ok = IsRefreshValid(call.tp, now)]
    /\ UNCHANGED <<mode, now, proc, mainVars, listVars, ffVars, coinTable, flowTable>>

NextToken == CallIsValid \/ CallIsRefreshValid

SpecToken == InitToken /\ [][NextToken]_vars

-----------------------------------------------------------------------------
(* WaitForNext5MinuteMark and WaitForNext4HourMark on their own: called at  *)
(* every second of TimerDays days; now becomes the time the Sleep ends.     *)

InitTimer ==
    /\ mode = "prod"
    /\ now \in 0..(TimerDays * DaySeconds - 1)
    /\ coinTable = {}
    /\ call = [NoCall EXCEPT !.op = "Now"]
    /\ Boot

WaitForNext5MinuteMark ==
    /\ call.op = "Now"
    /\ call' = [call EXCEPT !.op = "WaitForNext5MinuteMark", !.in = now,
                            !.out = Next5MinuteMark(now)]
    /\ now' = Next5MinuteMark(now)
    /\ UNCHANGED <<mode, proc, mainVars, listVars, ffVars, coinTable, flowTable>>

WaitForNext4HourMark ==
    /\ call.op = "Now"
    /\ call' = [call EXCEPT !.op = "WaitForNext4HourMark", !.in = now,
                            !.out = Next4HourMark(now)]
    /\ now' = Next4HourMark(now)
    /\ UNCHANGED <<mode, proc, mainVars, listVars, ffVars, coinTable, flowTable>>

NextTimer == WaitForNext5MinuteMark \/ WaitForNext4HourMark

SpecTimer == InitTimer /\ [][NextTimer]_vars

-----------------------------------------------------------------------------
(* Login and GetTokens on their own, over the answers the login endpoint    *)
(* may give: no answer, or an HTTP status with a body that does not parse   *)
(* or that parses to an envelope with a business code and token data.       *)

LoginStatuses == {200, 201, 401, 500}
LoginCodes == {0, 200, 201, 401, 500}

LoginAnswers ==
    { [transport |-> "fail", status |-> 0, parses |-> FALSE, Code |-> 0,
       Data |-> [account_token |-> NoToken, refresh_token |-> NoToken]] }
    \cup { [transport |-> "ok", status |-> st, parses |-> FALSE, Code |-> 0,
            Data |-> [account_token |-> NoToken, refresh_token |-> NoToken]] :
             st \in LoginStatuses }
    \cup { [transport |-> "ok", status |-> st, parses |-> TRUE, Code |-> co,
            Data |-> [account_token |-> tk, refresh_token |-> tk]] :
             st \in LoginStatuses, co \in LoginCodes,
             tk \in {NoToken, Jwt("call", StartNow)} }

InitLogin ==
    /\ mode = "dev"
    /\ now = StartNow
    /\ coinTable = {}
    /\ \E r \in LoginAnswers :
         call = [op |-> "answer", r |-> r, err |-> FALSE,
                 resp |-> NilLoginResponse, tp |-> NoTokenPair, requests |-> 0]
    /\ Boot

CallLogin ==
    /\ call.op = "answer"
    /\ LET l == Login(call.r)
       IN  call' = [call EXCEPT !.op = "Login", !.err = l.err, !.resp = l.resp,
                                !.requests = l.requests]
    /\ UNCHANGED <<mode, now, proc, mainVars, listVars, ffVars, coinTable, flowTable>>

CallGetTokens ==
    /\ call.op = "answer"
    /\ LET g == GetTokens(call.r)
       IN  call' = [call EXCEPT !.op = "GetTokens", !.err = g.err, !.tp = g.tp,
                                !.requests = Login(call.r).requests]
    /\ UNCHANGED <<mode, now, proc, mainVars, listVars, ffVars, coinTable, flowTable>>

NextLogin == CallLogin \/ CallGetTokens

SpecLogin == InitLogin /\ [][NextLogin]_vars

-----------------------------------------------------------------------------
(* saveCoinInfoToDB on its own: one page, of at most MaxPage entries, is    *)
(* handed to it twice, over an empty table or a table of an earlier cycle.  *)

PageCoins ==
    GoodCoins
    \cup { CoinMap(JStr(<<"2">>), JStr(<<"C">>), JStr(<<"c">>), JStr(<<"x">>)),
           CoinMap(JStr(<<"x">>), JStr(<<"C">>), JStr(<<"c">>), JStr(<<"7">>)),
           CoinMap(JNil, JStr(<<"C">>), JStr(<<"c">>), JStr(<<"7">>)),
           CoinMap(JStr(<<"2">>), JStr(<<"C">>), JStr(<<"c">>), JNum(70)) }

Pages == UNION { [1..n -> PageCoins] : n \in 0..MaxPage }

EarlierTables ==
    { {}, { [VSTokenID |-> 1, Name |-> <<"Z">>, Symbol |-> <<"z">>, MarketCap |-> 90] } }

InitIngest ==
    /\ mode = "dev"
    /\ now = StartNow
    /\ coinTable \in EarlierTables
    /\ \E page \in Pages :
         call = [op |-> "saveCoinInfoToDB", page |-> page, rest |-> page,
                 pass |-> 1, ups |-> 0, skips |-> 0, dberrs |-> 0,
                 before |-> coinTable, first |-> {}, last |-> NoCoin]
    /\ Boot

\* one iteration of the loop over coinList
IngestEntry ==
    /\ proc = "running" /\ call.op = "saveCoinInfoToDB" /\ call.rest # <<>>
    /\ \E dbOk \in BOOLEAN :
         LET r == SaveCoin(coinTable, Head(call.rest), dbOk)
         IN  IF r.outcome = "panic"
             THEN /\ proc' = "panic-list"
                  /\ UNCHANGED <<coinTable, call>>
             ELSE /\ proc' = proc
                  /\ coinTable' = r.table
                  /\ call' = [call EXCEPT
                        !.rest = Tail(@),
                        !.last = IF r.outcome = "saved"
                                 THEN CoinRecord(Head(call.rest)) ELSE NoCoin,
                        !.ups = IF r.outcome = "saved" THEN @ + 1 ELSE @,
                        !.skips = IF r.outcome = "skip" THEN @ + 1 ELSE @,
                        !.dberrs = IF r.outcome = "dberr" THEN @ + 1 ELSE @]
    /\ UNCHANGED <<mode, now, mainVars, listVars, ffVars, flowTable>>

\* saveCoinInfoToDB returns nil
IngestReturn ==
    /\ proc = "running" /\ call.op = "saveCoinInfoToDB" /\ call.rest = <<>>
    /\ call' = IF call.pass = 1
               THEN [call EXCEPT !.pass = 2, !.rest = call.page, !.first = coinTable]
               ELSE [call EXCEPT !.op = "twice"]
    /\ UNCHANGED <<mode, now, proc, mainVars, listVars, ffVars, coinTable, flowTable>>

NextIngest == IngestEntry \/ IngestReturn

SpecIngest == InitIngest /\ [][NextIngest]_vars

-----------------------------------------------------------------------------
(* saveTradeInflowToDB on its own: two polls of one asset, each a list of   *)
(* at most MaxFlowList entries, are handed to it one after the other over   *)
(* an empty table.                                                          *)

FlowEntries ==
    { TradeMap(JStr(<<"t", "1">>), JNum(10), JBool(TRUE), JNum(15)),
      TradeMap(JStr(<<"t", "1">>), JStr(<<"3">>), JStr(<<"t", "r", "u", "e">>), JStr(<<"2">>)),
      TradeMap(JStr(<<"t", "1">>), JNil, JBool(FALSE), JNum(0)),
      TradeMap(JStr(<<"t", "2">>), JNum(10), JBool(TRUE), JNum(15)),
      NotATradeMap }

FlowLists == UNION { [1..n -> FlowEntries] : n \in 0..MaxFlowList }

InitFlow ==
    /\ mode = "dev"
    /\ now = StartNow
    /\ coinTable = {}
    /\ \E p1, p2 \in FlowLists :
         call = [op |-> "saveTradeInflowToDB", symbol |-> <<"a">>,
                 polls |-> <<p1, p2>>, poll |-> 1, rest |-> p1,
                 dberrs |-> 0, first |-> {}, last |-> NoFlow]
    /\ Boot

\* one iteration of the loop over tradeList
FlowEntry ==
    /\ proc = "running" /\ call.op = "saveTradeInflowToDB" /\ call.rest # <<>>
    /\ \E dbOk \in BOOLEAN :
         LET r == SaveTrade(flowTable, Head(call.rest), call.symbol, dbOk)
         IN  IF r.outcome = "panic"
             THEN /\ proc' = "panic-fund"
                  /\ UNCHANGED <<flowTable, call>>
             ELSE /\ proc' = proc
                  /\ flowTable' = r.table
                  /\ call' = [call EXCEPT
                        !.rest = Tail(@),
                        !.last = IF r.outcome = "saved"
                                 THEN FlowRecord(Head(call.rest), call.symbol)
                                 ELSE NoFlow,
                        !.dberrs = IF r.outcome = "dberr" THEN @ + 1 ELSE @]
    /\ UNCHANGED <<mode, now, mainVars, listVars, ffVars, coinTable>>

\* saveTradeInflowToDB returns nil
FlowReturn ==
    /\ proc = "running" /\ call.op = "saveTradeInflowToDB" /\ call.rest = <<>>
    /\ call' = IF call.poll = 1
               THEN [call EXCEPT !.poll = 2, !.rest = call.polls[2],
                                 !.first = flowTable, !.last = NoFlow]
               ELSE [call EXCEPT !.op = "polled"]
    /\ UNCHANGED <<mode, now, proc, mainVars, listVars, ffVars, coinTable, flowTable>>

NextFlow == FlowEntry \/ FlowReturn

SpecFlow == InitFlow /\ [][NextFlow]_vars

-----------------------------------------------------------------------------
(* runCoinInfoTimer and runTradeInflowTimer on their own: the two loops     *)
(* from their launch on, over PaceHours hours. A cycle (processCoinInfoTask *)
(* or processTradeInflow) is a call that returns after some time; the clock *)
(* moves from one end of a sleep or of a cycle to the next.                 *)

\* how long a call of processTradeInflow may take
FundDurations == {0, 100, 5 * 60, 11 * 60 + 40}

\* how long a call of processCoinInfoTask may take
ListDurations == {0, 130, 4 * 3600, 4 * 3600 + 130}

PaceEnd == StartNow + PaceHours * 3600

\* history of a loop: the time its last wait was called, the times its last
\* cycle started and returns, the time the cycle before started, and the
\* cycles of the loop that are running
NoRun == [top |-> 0, start |-> 0, ends |-> 0, prev |-> 0, active |-> 0]

\* the loop calls its process function at now, and the call takes d seconds
BeginCycle(h, d) ==
    [h EXCEPT !.prev = h.start, !.start = now, !.ends = now + d,
              !.active = @ + 1]

\* the state main leaves when it blocks in select {}, in the mode that waits
InitPace ==
    /\ mode = "prod"
    /\ now = StartNow
    /\ proc = "running"
    /\ mainPc = "blocked"
    /\ tokenPair = NewTokenPair(Jwt("main", StartNow), Jwt("main", StartNow))
    /\ boot = [config |-> "ok", db |-> "ok", migrate |-> "ok", login |-> "ok"]
    /\ listPc = "top"
    /\ listWake = 0
    /\ listToken = NoToken
    /\ coinLeft = 0
    /\ listCycle = NewListCycle
    /\ ffPc = "top"
    /\ ffWake = 0
    /\ accessToken = Jwt("main", StartNow)
    /\ currentToken = NoToken
    /\ vsTokenIDs = <<>>
    /\ ffIdx = 0
    /\ successCount = 0
    /\ validToken = NoToken
    /\ tradeLeft = 0
    /\ ffSymbol = <<>>
    /\ ffCycle = NewFundCycle
    /\ coinTable = {}
    /\ flowTable = {}
    /\ call = [op |-> "pace", list |-> NoRun, fund |-> NoRun]

\* runCoinInfoTimer, the top of the for loop: WaitForNext4HourMark when
\* ShouldDelay, processCoinInfoTask(service) at once otherwise
CoinInfoTimerTop ==
    /\ proc = "running" /\ listPc = "top"
    /\ IF ShouldDelay
       THEN /\ listPc' = "sleep"
            /\ listWake' = Next4HourMark(now)
            /\ call' = [call EXCEPT !.list.top = now]
       ELSE /\ listPc' = "login"
            /\ listWake' = listWake
            /\ \E d \in ListDurations :
                 call' = [call EXCEPT
                             !.list = BeginCycle([@ EXCEPT !.top = now], d)]
    /\ UNCHANGED <<mode, now, proc, mainVars, listToken, coinLeft, listCycle,
                   ffVars, coinTable, flowTable>>

\* time.Sleep(delay) returns and runCoinInfoTimer calls processCoinInfoTask
CoinInfoTimerWakeUp ==
    /\ proc = "running" /\ listPc = "sleep"
    /\ now >= listWake
    /\ listPc' = "login"
    /\ \E d \in ListDurations :
         call' = [call EXCEPT !.list = BeginCycle(@, d)]
    /\ UNCHANGED <<mode, now, proc, mainVars, listWake, listToken, coinLeft,
                   listCycle, ffVars, coinTable, flowTable>>

\* processCoinInfoTask returns to runCoinInfoTimer
CoinInfoTaskReturns ==
    /\ proc = "running" /\ listPc = "login"
    /\ now >= call.list.ends
    /\ listPc' = "top"
    /\ call' = [call EXCEPT !.list.active = @ - 1]
    /\ UNCHANGED <<mode, now, proc, mainVars, listWake, listToken, coinLeft,
                   listCycle, ffVars, coinTable, flowTable>>

\* runTradeInflowTimer, the top of the for loop: WaitForNext5MinuteMark when
\* ShouldDelay, processTradeInflow(service, accessToken) at once otherwise
TradeInflowTimerTop ==
    /\ proc = "running" /\ ffPc = "top"
    /\ IF ShouldDelay
       THEN /\ ffPc' = "sleep"
            /\ ffWake' = Next5MinuteMark(now)
            /\ call' = [call EXCEPT !.fund.top = now]
       ELSE /\ ffPc' = "load"
            /\ ffWake' = ffWake
            /\ \E d \in FundDurations :
                 call' = [call EXCEPT
                             !.fund = BeginCycle([@ EXCEPT !.top = now], d)]
    /\ UNCHANGED <<mode, now, proc, mainVars, listVars, accessToken, ffLocals,
                   ffCycle, coinTable, flowTable>>

\* time.Sleep(delay) returns and runTradeInflowTimer calls processTradeInflow
TradeInflowTimerWakeUp ==
    /\ proc = "running" /\ ffPc = "sleep"
    /\ now >= ffWake
    /\ ffPc' = "load"
    /\ \E d \in FundDurations :
         call' = [call EXCEPT !.fund = BeginCycle(@, d)]
    /\ UNCHANGED <<mode, now, proc, mainVars, listVars, ffWake, accessToken,
                   ffLocals, ffCycle, coinTable, flowTable>>

\* processTradeInflow returns to runTradeInflowTimer
TradeInflowReturns ==
    /\ proc = "running" /\ ffPc = "load"
    /\ now >= call.fund.ends
    /\ ffPc' = "top"
    /\ call' = [call EXCEPT !.fund.active = @ - 1]
    /\ UNCHANGED <<mode, now, proc, mainVars, listVars, ffWake, accessToken,
                   ffLocals, ffCycle, coinTable, flowTable>>

\* the times at which a sleep or a cycle of the two loops ends
PaceEvents ==
    {IF listPc = "sleep" THEN listWake ELSE call.list.ends}
    \cup {IF ffPc = "sleep" THEN ffWake ELSE call.fund.ends}

\* Time passes up to the next end of a sleep or of a cycle; a goroutine that
\* can run does so before the clock moves on.
PaceTick ==
    /\ proc = "running"
    /\ listPc # "top" /\ ffPc # "top"
    /\ \A e \in PaceEvents : e > now
    /\ now' = CHOOSE e \in PaceEvents : \A x \in PaceEvents : e <= x
    /\ now' <= PaceEnd
    /\ UNCHANGED <<mode, proc, mainVars, listVars, ffVars, coinTable, flowTable, call>>

NextPace ==
    \/ CoinInfoTimerTop \/ CoinInfoTimerWakeUp \/ CoinInfoTaskReturns
    \/ TradeInflowTimerTop \/ TradeInflowTimerWakeUp \/ TradeInflowReturns
    \/ PaceTick

SpecPace == InitPace /\ [][NextPace]_vars

-----------------------------------------------------------------------------
(* getString, getInt, getFloat64 and getBool on their own, and one          *)
(* iteration of saveTradeInflowToDB over them: a value of the payload is    *)
(* handed to each helper, is every field of an element of tradeList, or is  *)
(* itself the element.                                                      *)

PayloadStrings ==
    { <<>>, <<"3">>, <<"-", "2">>, <<"+", "4">>, <<"1", ".", "5">>, <<"3", "x">>,
      <<"x">>, <<"1">>, <<"0">>, <<"T">>, <<"t", "r", "u", "e">>,
      <<"f", "a", "l", "s", "e">>, <<"y", "e", "s">> }

\* absent or null, numbers (in tenths), booleans, strings, and an array
PayloadValues ==
    {JNil, JOther, JBool(TRUE), JBool(FALSE)}
    \cup { JNum(n) : n \in {-25, -20, 0, 5, 10, 15, 30} }
    \cup { JStr(s) : s \in PayloadStrings }

NoResult == [i |-> 0, f |-> 0, b |-> FALSE, s |-> <<>>, record |-> NoFlow]

InitCoerce ==
    /\ mode = "dev"
    /\ now = StartNow
    /\ coinTable = {}
    /\ \E v \in PayloadValues :
         call = [op |-> "value", value |-> v, result |-> NoResult]
    /\ Boot

CallGetString ==
    /\ proc = "running" /\ call.op = "value"
    /\ call' = [call EXCEPT !.op = "getString",
                            !.result.s = getString(call.value)]
    /\ UNCHANGED <<mode, now, proc, mainVars, listVars, ffVars, coinTable, flowTable>>

CallGetInt ==
    /\ proc = "running" /\ call.op = "value"
    /\ call' = [call EXCEPT !.op = "getInt",
                            !.result.i = getInt(call.value)]
    /\ UNCHANGED <<mode, now, proc, mainVars, listVars, ffVars, coinTable, flowTable>>

CallGetFloat64 ==
    /\ proc = "running" /\ call.op = "value"
    /\ call' = [call EXCEPT !.op = "getFloat64",
                            !.result.f = getFloat64(call.value)]
    /\ UNCHANGED <<mode, now, proc, mainVars, listVars, ffVars, coinTable, flowTable>>

CallGetBool ==
    /\ proc = "running" /\ call.op = "value"
    /\ call' = [call EXCEPT !.op = "getBool",
                            !.result.b = getBool(call.value)]
    /\ UNCHANGED <<mode, now, proc, mainVars, listVars, ffVars, coinTable, flowTable>>

\* one iteration of saveTradeInflowToDB over an element that is an object
\* whose fields all hold the value
SaveFields ==
    /\ proc = "running" /\ call.op = "value"
    /\ \E dbOk \in BOOLEAN :
         LET e == TradeMap(call.value, call.value, call.value, call.value)
             r == SaveTrade(flowTable, e, <<"a">>, dbOk)
         IN  /\ proc' = IF r.outcome = "panic" THEN "panic-fund" ELSE proc
             /\ flowTable' = r.table
             /\ call' = [call EXCEPT !.op = "fields",
                                     !.result.record = FlowRecord(e, <<"a">>)]
    /\ UNCHANGED <<mode, now, mainVars, listVars, ffVars, coinTable>>

\* one iteration of saveTradeInflowToDB over an element that is the value
\* itself: null, a number, a boolean, a string or an array
SaveElement ==
    /\ proc = "running" /\ call.op = "value"
    /\ \E dbOk \in BOOLEAN :
         LET r == SaveTrade(flowTable, NotATradeMap, <<"a">>, dbOk)
         IN  /\ proc' = IF r.outcome = "panic" THEN "panic-fund" ELSE proc
             /\ flowTable' = r.table
             /\ call' = [call EXCEPT !.op = "element"]
    /\ UNCHANGED <<mode, now, mainVars, listVars, ffVars, coinTable>>

NextCoerce ==
    \/ CallGetString \/ CallGetInt \/ CallGetFloat64 \/ CallGetBool
    \/ SaveFields \/ SaveElement

SpecCoerce == InitCoerce /\ [][NextCoerce]_vars

-----------------------------------------------------------------------------
(* The claims *)

\* C1: a call of ValidateAndRefreshToken handed a token whose expiry lies in
\* the past makes exactly one login and returns that login's account token,
\* or an error when the login fails.
C1_ExpiredTokenIsRefreshed ==
    (ffCycle.vr.called /\ ffCycle.vr.expired)
        => /\ ffCycle.vr.logins = 1
           /\ \/ ffCycle.vr.err
              \/ /\ ffCycle.vr.returned = ffCycle.relogin
                 /\ ffCycle.relogin # NoToken

\* C2: once an asset of a fund-flow cycle was handed an expired token, the
\* token handed to every later asset of the cycle is the one the cycle's
\* re-login produced.
C2_RefreshedTokenIsThreaded ==
    (ffPc = "validate" /\ ffCycle.expiredSeen)
        => /\ ffCycle.relogin # NoToken
           /\ currentToken = ffCycle.relogin

\* C3: a listing cycle that meets an error upserts nothing, and the listing
\* loop is back at the top of its loop: the process has not died of it.
C3_ListingErrorAbandonsCycle ==
    listCycle.err # "none"
        => /\ listCycle.ups = 0
           /\ proc # "panic-list"
           /\ listPc = "top"

MalformedAt(page) == { i \in 1..Len(page) : Malformed(page[i]) }

OneMalformed(page) ==
    /\ Cardinality(MalformedAt(page)) = 1
    /\ \A i \in 1..Len(page) : Malformed(page[i]) \/ page[i] \in GoodCoins

\* C4: of a page with exactly one malformed entry (tokenID or marketCap
\* absent, not a string, or not a number), saveCoinInfoToDB upserts every
\* other entry and skips the malformed one, without a fatal error.
C4_OneMalformedEntryIsSkipped ==
    (call.op = "saveCoinInfoToDB" /\ call.pass = 1 /\ call.dberrs = 0
     /\ OneMalformed(call.page))
        => /\ proc # "panic-list"
           /\ call.ups + call.skips = Len(call.page) - Len(call.rest)
           /\ call.rest = <<>> => (call.ups = Len(call.page) - 1 /\ call.skips = 1)

\* C5: a fund-flow cycle processes the asset IDs it loaded once each and in
\* order, whatever fails, and reaches its summary: the process does not die
\* in the loop.
C5_EveryAssetProcessedOnce ==
    /\ proc # "panic-fund"
    /\ ffCycle.done = SubSeq(vsTokenIDs, 1, Len(ffCycle.done))
    /\ ffCycle.summary.logged
         => (ffCycle.done = vsTokenIDs /\ ffCycle.summary.total = Len(vsTokenIDs))

\* C6: ValidateAndRefreshToken on a token IsValid accepts returns the token
\* it was given and makes no login.
C6_ValidTokenReturnedUntouched ==
    (ffCycle.vr.called /\ ffCycle.vr.valid)
        => /\ ffCycle.vr.returned = ffCycle.vr.handed
           /\ ffCycle.vr.logins = 0
           /\ ~ffCycle.vr.err

C6_Witness ==
    /\ ffCycle.vr.called /\ ffCycle.vr.valid
    /\ ffCycle.vr.handed # NoToken
    /\ ffCycle.fetchedWith = ffCycle.vr.handed

\* C7: IsValid is true iff ExpiresAt is 0 or now < ExpiresAt (false at
\* now = ExpiresAt), IsRefreshValid the same on RefreshExpiresAt, and a pair
\* with ExpiresAt = 0 is valid at every time.
C7_ValidIffUnsetOrBeforeExpiry ==
    /\ call.op = "IsValid"
         => /\ call.ok <=> (call.tp.ExpiresAt = 0 \/ now < call.tp.ExpiresAt)
            /\ now = call.tp.ExpiresAt /\ now # 0 => ~call.ok
            /\ call.tp.ExpiresAt = 0 => call.ok
    /\ call.op = "IsRefreshValid"
         => (call.ok <=> (call.tp.RefreshExpiresAt = 0 \/ now < call.tp.RefreshExpiresAt))

C7_Witness ==
    /\ call.op = "IsValid"
    /\ call.tp.ExpiresAt = MaxExp /\ now = MaxExp
    /\ ~call.ok

HMS(h, m, sec) == h * 3600 + m * 60 + sec

\* C8: the 5-minute wait ends at a time b strictly after the time t of the
\* call and at most 5 minutes later, with seconds 0 and a minute that is a
\* multiple of 5, in the next hour for minutes 55..59; from 10:07:00 it ends
\* at 10:10:00 and from 10:10:00 at 10:15:00.
C8_Next5MinuteBoundary ==
    call.op = "WaitForNext5MinuteMark"
        => /\ call.out > call.in
           /\ call.out - call.in <= 5 * 60
           /\ Second(call.out) = 0
           /\ Minute(call.out) % 5 = 0
           /\ Minute(call.in) >= 55
                => (Minute(call.out) = 0 /\ Hour(call.out) = (Hour(call.in) + 1) % 24)
           /\ call.in % DaySeconds = HMS(10, 7, 0) => call.out = call.in + 3 * 60
           /\ call.in % DaySeconds = HMS(10, 10, 0) => call.out = call.in + 5 * 60
           /\ now = call.out

C8_Witness ==
    /\ call.op = "WaitForNext5MinuteMark"
    /\ call.in = HMS(10, 10, 0)
    /\ now = HMS(10, 15, 0)

\* C9: the 4-hour wait ends at a time b that is one of 00:00, 04:00, 08:00,
\* 12:00, 16:00, 20:00, strictly after the time t of the call and at most 4
\* hours later; from 20:00..23:59 it ends at 00:00 of the following day.
C9_Next4HourBoundary ==
    call.op = "WaitForNext4HourMark"
        => /\ call.out > call.in
           /\ call.out - call.in <= 4 * 3600
           /\ Second(call.out) = 0 /\ Minute(call.out) = 0
           /\ Hour(call.out) \in {0, 4, 8, 12, 16, 20}
           /\ Hour(call.in) >= 20 => call.out = DayStart(call.in) + DaySeconds
           /\ now = call.out

C9_Witness ==
    /\ call.op = "WaitForNext4HourMark"
    /\ call.in = HMS(23, 59, 59)
    /\ now = DaySeconds

\* C10: no two rows of the listing table share a tokenID, and a page
\* ingested a second time leaves every row as the first ingestion left it.
C10_ListingUpsertIdempotent ==
    /\ \A r1, r2 \in coinTable : r1.VSTokenID = r2.VSTokenID => r1 = r2
    /\ (call.op = "twice" /\ call.dberrs = 0) => coinTable = call.first

C10_Witness ==
    /\ call.op = "twice" /\ call.dberrs = 0
    /\ Len(call.page) >= 2
    /\ call.ups = 2 * Len(call.page)
    /\ Cardinality(coinTable) = 1
    /\ coinTable # call.before
    /\ \E i, j \in 1..Len(call.page) : call.page[i] # call.page[j]

\* C11: once an entry has been upserted, the row of its tokenID holds the
\* entry's name, symbol and marketCap, whether the row was there before or
\* not and whether the new values are empty, 0 or not.
C11_UpsertOverwritesWithLatest ==
    call.last # NoCoin => call.last \in coinTable

\* C12: the flow table holds at most one row per (symbol, timestamp); a
\* second poll identical to the first leaves the table as the first left it;
\* and once an entry has been upserted, the row of its (symbol, timestamp)
\* holds the entry's values, also when the key was already stored with
\* different values.
C12_FlowUpsertKeepsLatestWrite ==
    /\ \A r1, r2 \in flowTable :
          (r1.Symbol = r2.Symbol /\ r1.Time = r2.Time) => r1 = r2
    /\ (call.op = "polled" /\ call.dberrs = 0 /\ call.polls[1] = call.polls[2])
          => flowTable = call.first
    /\ (call.op \in {"saveTradeInflowToDB", "polled"} /\ call.last # NoFlow)
          => call.last \in flowTable

LoginConditions(r) == r.transport = "ok" /\ r.parses /\ r.Code = 200

\* C13: Login and GetTokens succeed only when the transport succeeded, the
\* body parsed and the envelope's code is 200, and then they yield the
\* tokens of the envelope; in every other case they return an error with no
\* response and no token pair; and one call sends at most one request.
C13_LoginSucceedsOnlyOnCode200 ==
    call.op \in {"Login", "GetTokens"}
        => /\ ~call.err => LoginConditions(call.r)
           /\ ~LoginConditions(call.r)
                 => call.err /\ call.resp = NilLoginResponse /\ call.tp = NoTokenPair
           /\ (call.op = "Login" /\ ~call.err) => call.resp = call.r
           /\ (call.op = "GetTokens" /\ ~call.err)
                 => call.tp = NewTokenPair(call.r.Data.account_token,
                                           call.r.Data.refresh_token)
           /\ call.requests <= 1

C13_Witness ==
    /\ call.op = "GetTokens" /\ call.err /\ call.tp = NoTokenPair
    /\ call.r.transport = "ok" /\ call.r.status = 200 /\ call.r.parses
    /\ call.r.Code = 401
    /\ call.r.Data.account_token = Jwt("call", StartNow)
    /\ call.requests = 1

\* C14: when the fetch for an asset is answered with code 200 and a payload
\* without coinTradeInflowDtoList, no flow row is written, the asset is
\* counted as a success and not as a failure, and the loop goes on to the
\* next asset (or to the summary); the summary's failed count is the number
\* of assets that returned an error.
C14_MissingListIsBenign ==
    [][ /\ (ffPc = "fetch" /\ ffPc' # "fetch" /\ ffCycle'.shape = "nolist")
            => /\ flowTable' = flowTable
               /\ successCount' = successCount + 1
               /\ ffCycle'.errs = ffCycle.errs
               /\ ffIdx' = ffIdx + 1
               /\ ffPc' = AfterAsset
               /\ proc' = "running"
        /\ ffCycle'.summary.logged
            => ffCycle'.summary.failed = ffCycle'.errs ]_vars

C14_Witness ==
    /\ ffCycle.summary.logged
    /\ ffCycle.shape = "nolist"
    /\ ffCycle.summary.total = 2
    /\ ffCycle.summary.failed = 1
    /\ ffCycle.summary.success = 1

LoopsStarted == listPc # "off" \/ ffPc # "off"

BootFailed == \E k \in DOMAIN boot : boot[k] = "fail"

\* C15: the two loops are started only after configuration load, database
\* init, migration and the initial login have all succeeded, and then both
\* are started and main stays blocked; when one of the four fails no loop is
\* ever started, no cycle runs, main never reaches its login or launch after
\* a database failure, and the process ends.
C15_LoopsStartOnlyAfterStartup ==
    /\ LoopsStarted
          => /\ boot = [config |-> "ok", db |-> "ok", migrate |-> "ok", login |-> "ok"]
             /\ mainPc = "blocked"
             /\ listPc # "off" /\ ffPc # "off"
    /\ BootFailed
          => /\ ~LoopsStarted
             /\ listCycle = NewListCycle /\ ffCycle = NewFundCycle
             /\ coinTable = {} /\ flowTable = {}
             /\ \/ proc \in {"exited", "panic-main"}
                \/ mainPc = "migrate" /\ boot.db = "fail" /\ boot.migrate = "-"

C15_Witness ==
    /\ mainPc = "blocked"
    /\ boot.login = "ok"
    /\ listPc = "save" /\ ffPc = "fetch"
    /\ proc = "running"

CycleOfList == {"login", "query", "save"}

CycleOfFund == {"load", "validate", "fetch", "save", "summary"}

\* C16: in mode "prod", and in no other mode, each cycle of the listing loop
\* comes after exactly one wait, for a 4-hour boundary that has been reached,
\* and each cycle of the fund-flow loop after exactly one wait, for a
\* 5-minute boundary that has been reached; in any other mode neither loop
\* ever waits or sleeps.
C16_WaitsIffProd ==
    /\ listPc \in CycleOfList
          => listCycle.waits = IF mode = "prod" THEN <<"4h">> ELSE <<>>
    /\ ffPc \in CycleOfFund
          => ffCycle.waits = IF mode = "prod" THEN <<"5m">> ELSE <<>>
    /\ mode # "prod" => listPc # "sleep" /\ ffPc # "sleep"
    /\ (mode = "prod" /\ listPc \in CycleOfList)
          => /\ now >= listWake
             /\ Hour(listWake) % 4 = 0 /\ Minute(listWake) = 0 /\ Second(listWake) = 0
    /\ (mode = "prod" /\ ffPc \in CycleOfFund)
          => /\ now >= ffWake
             /\ Minute(ffWake) % 5 = 0 /\ Second(ffWake) = 0

C16_Witness ==
    /\ mode = "prod"
    /\ listPc = "save" /\ listCycle.waits = <<"4h">> /\ listWake = 4 * 3600
    /\ ffPc = "load" /\ ffCycle.waits = <<"5m">> /\ ffWake = 4 * 3600
    /\ now = 4 * 3600

\* C17: the listing loop never reaches a state it cannot leave: whatever the
\* login, the fetch, the decoding and the upserts of a cycle come to, the
\* goroutine is still running and goes back to the top of its loop.
C17_ListingLoopNeverEnds ==
    listPc # "off" => proc # "panic-list"

\* C18: a listing cycle logs in exactly once before anything else, sends a
\* listing request only after that login succeeded, sends exactly one, for
\* page 1 with page size 100, and sends it with the token that login
\* returned, never with the token of startup.
C18_ListingCycleLogsInFresh ==
    /\ listCycle.logins <= 1 /\ listCycle.queries <= 1
    /\ listPc = "query" => listCycle.logins = 1
    /\ (listPc = "query" /\ proc # "panic-list") => listCycle.queries = 0
    /\ listCycle.err = "login" => listCycle.queries = 0 /\ listCycle.ups = 0
    /\ (listCycle.queries > 0 \/ listCycle.ups > 0 \/ listPc = "save")
          => /\ listCycle.logins = 1 /\ listCycle.queries = 1
             /\ listCycle.err # "login"
             /\ listCycle.queriedWith = listToken
             /\ listToken.by = "list"
             /\ listCycle.request = CoinQueryRequest
             /\ listCycle.request.page = 1 /\ listCycle.request.pageSize = 100

C18_Witness ==
    /\ listPc = "top" /\ listCycle.ups = 2
    /\ listCycle.queriedWith.by = "list"
    /\ listCycle.queriedWith # tokenPair.AccountToken
    /\ tokenPair.AccountToken.by = "main"

\* C19: in a fund-flow cycle nothing is validated, fetched or upserted before
\* the asset IDs are loaded, and nothing at all when loading them fails; a
\* fetch is sent for an asset only after its token validation succeeded; and
\* rows are upserted for an asset only after its fetch was answered with
\* code 200 and a flow list.
C19_FundFlowOrder ==
    /\ (ffPc \in {"validate", "fetch", "save"} \/ ffCycle.done # <<>>
            \/ ffCycle.shape # "none" \/ ffCycle.upserted)
          => ffCycle.loaded = "ok"
    /\ ffCycle.loaded = "fail"
          => /\ ffPc = "top" /\ ffCycle.done = <<>>
             /\ ffCycle.shape = "none" /\ ~ffCycle.upserted
    /\ (ffPc = "fetch" \/ ffCycle.shape # "none")
          => /\ ffCycle.vr.called /\ ~ffCycle.vr.err
             /\ ffCycle.fetchedWith \in {NoToken, ffCycle.vr.returned}
    /\ ffCycle.vr.err => ffCycle.shape = "none" /\ ~ffCycle.upserted
    /\ (ffPc = "save" \/ ffCycle.upserted)
          => ffCycle.shape = "arr" /\ ~ffCycle.vr.err
    /\ ffCycle.shape \in {"fail", "code", "str", "nolist", "notarr"}
          => ~ffCycle.upserted

C19_Witness ==
    /\ ffCycle.loaded = "ok"
    /\ Len(ffCycle.done) = 2
    /\ ffCycle.shape = "code"
    /\ ~ffCycle.upserted
    /\ flowTable # {}
    /\ ffCycle.summary.logged

\* the elements of a sequence
Range(q) == { q[i] : i \in 1..Len(q) }

\* C20: the assets a fund-flow cycle polls are the tokenIDs the listing
\* table held when the cycle read it, each once and in the order read; rows
\* the listing loop writes while the cycle runs do not change them; and a
\* cycle that reaches its summary has polled them all.
C20_AssetIDsReadOncePerCycle ==
    /\ ffCycle.loaded = "ok"
          => /\ Range(vsTokenIDs) = ffCycle.snapshot
             /\ Len(vsTokenIDs) = Cardinality(ffCycle.snapshot)
             /\ Len(ffCycle.done) <= Len(vsTokenIDs)
             /\ \A i \in 1..Len(ffCycle.done) : ffCycle.done[i] = vsTokenIDs[i]
    /\ ffCycle.summary.logged
          => /\ ffCycle.done = vsTokenIDs
             /\ ffCycle.summary.total = Cardinality(ffCycle.snapshot)

C20_Witness ==
    /\ ffCycle.summary.logged
    /\ ffCycle.snapshot = {1}
    /\ ffCycle.done = <<1>>
    /\ {row.VSTokenID : row \in coinTable} = {1, 2}

\* the tokens the fund-flow loop holds or has used
FundTokens == {accessToken, currentToken, validToken, ffCycle.fetchedWith}

\* C21: The expiry-based refresh path is never taken. The token pair of the
\* startup login records no expiry; every ValidateAndRefreshToken call of the
\* fund-flow loop judges its token valid, makes no login and returns the token
\* it was handed; the fund-flow loop holds and sends only the token of the
\* startup login; and the only other logins are those of the listing loop, at
\* most one per cycle, whose token stays in the listing loop.
C21_RefreshPathNeverTaken ==
    /\ tokenPair.ExpiresAt = 0 /\ tokenPair.RefreshExpiresAt = 0
    /\ tokenPair.AccountToken.by \in {"none", "main"}
    /\ ffCycle.vr.called =>
         /\ ffCycle.vr.valid
         /\ ffCycle.vr.logins = 0
         /\ ~ffCycle.vr.err
         /\ ffCycle.vr.returned = ffCycle.vr.handed
    /\ ffCycle.relogin = NoToken
    /\ \A tok \in FundTokens : tok.by \in {"none", "main"}
    /\ listToken.by \in {"none", "list"}
    /\ listCycle.logins <= 1

\* the fund-flow loop has validated and sent a token the server has expired,
\* while the listing loop has logged in for its cycle
C21_Witness ==
    /\ ffCycle.vr.called /\ ffCycle.vr.expired
    /\ ffCycle.fetchedWith = tokenPair.AccountToken
    /\ ffCycle.fetchedWith.exp < now
    /\ listCycle.logins = 1 /\ listToken.by = "list"

\* the first multiple of interval strictly after t
FirstBoundaryAfter(t, interval) == ((t \div interval) + 1) * interval

\* C22: In delay mode every wait of a loop is called when the cycle before
\* it returned and ends at the first boundary of the loop's interval (5
\* minutes, 4 hours) strictly after that time, and the cycle after it starts
\* at that boundary, so the boundaries a cycle overran are skipped; a loop has
\* at most one cycle running.
C22_CyclesAlignedNoOverlap ==
    /\ call.fund.active <= 1
    /\ call.list.active <= 1
    /\ ShouldDelay =>
         /\ ffPc = "sleep" =>
              /\ ffWake = FirstBoundaryAfter(call.fund.top, 5 * 60)
              /\ call.fund.start > 0 => call.fund.top = call.fund.ends
         /\ ffPc = "load" =>
              /\ call.fund.start = FirstBoundaryAfter(call.fund.top, 5 * 60)
              /\ call.fund.prev > 0 => call.fund.prev <= call.fund.top
         /\ listPc = "sleep" =>
              /\ listWake = FirstBoundaryAfter(call.list.top, 4 * 3600)
              /\ call.list.start > 0 => call.list.top = call.list.ends
         /\ listPc = "login" =>
              /\ call.list.start = FirstBoundaryAfter(call.list.top, 4 * 3600)
              /\ call.list.prev > 0 => call.list.prev <= call.list.top

\* a fund-flow cycle that started at 04:00:00 and returned at 04:11:40 is
\* followed by the cycle of 04:15:00, and a listing cycle that started at
\* 04:00:00 and returned at 08:02:10 by the cycle of 12:00:00
C22_Witness ==
    /\ ShouldDelay
    /\ listPc = "login" /\ now = HMS(12, 0, 0)
    /\ call.list.prev = HMS(4, 0, 0)
    /\ call.list.top = HMS(8, 2, 10)
    /\ call.list.start = HMS(12, 0, 0)
    /\ ffPc = "load"
    /\ call.fund.prev = HMS(11, 45, 0)
    /\ call.fund.top = HMS(11, 56, 40)
    /\ call.fund.start = HMS(12, 0, 0)

\* C23: No operation is retried. In every state a listing cycle has made at
\* most one login and at most one listing request, a listing cycle that ended
\* in an error is at the top of its loop, and the fund-flow cycle has begun
\* the assets it read in their order, each once, and is about to fetch only
\* for an asset it has not fetched for. The step that leaves the top after a
\* failed listing cycle starts a new cycle: in delay mode with a wait for the
\* first 4-hour boundary after now, and no login is begun in delay mode but
\* by the end of such a wait.
C23_NoRetryWithinCycle ==
    /\ [](/\ listCycle.logins <= 1
          /\ listCycle.queries <= 1
          /\ ffCycle.done = SubSeq(vsTokenIDs, 1, Len(ffCycle.done))
          /\ (ffPc = "fetch" /\ proc = "running") => ffCycle.shape = "none"
          /\ (listCycle.err # "none" /\ proc = "running") => listPc = "top")
    /\ [][ /\ (listCycle.err # "none" /\ listPc' # listPc) =>
                /\ listCycle'.logins = 0 /\ listCycle'.queries = 0
                /\ IF ShouldDelay
                   THEN /\ listPc' = "sleep"
                        /\ listWake' = FirstBoundaryAfter(now, 4 * 3600)
                   ELSE listPc' = "login"
           /\ (ShouldDelay /\ listPc' = "login" /\ listPc # "login") =>
                /\ listPc = "sleep"
                /\ now >= listWake
         ]_vars

\* in delay mode the listing request of the cycle of 04:00:00 has failed; it
\* was sent once and the loop is back at its top
C23_Witness ==
    /\ ShouldDelay
    /\ now = 4 * 3600
    /\ listCycle.err = "query"
    /\ listCycle.logins = 1
    /\ listCycle.queries = 1
    /\ listPc = "top"

CoercionHelpers == {"getString", "getInt", "getFloat64", "getBool"}

\* the values that are not of the type a helper returns, nor a string
WrongTyped(op) ==
    IF op = "getString" THEN {"num", "bool", "other"}
    ELSE IF op = "getBool" THEN {"num", "other"}
    ELSE {"bool", "other"}

\* C24: Each helper returns for every payload value: 0, false or the empty
\* string for an absent value and for a value of the wrong type, the number
\* or boolean a string encodes ("3" is 3, "1.5" is 1.5, "true" is true), and
\* no element of the list ends the process.
C24_CoercionTotalWithSafeDefaults ==
    /\ proc = "running"
    /\ (call.op \in CoercionHelpers /\ call.value.t = "nil") =>
         call.result = NoResult
    /\ (call.op = "fields" /\ call.value.t = "nil") =>
         call.result.record = [NoFlow EXCEPT !.Symbol = <<"a">>]
    /\ (call.op \in CoercionHelpers /\ call.value.t \in WrongTyped(call.op)) =>
         call.result = NoResult
    /\ (call.op = "getInt" /\ call.value = JStr(<<"3">>)) => call.result.i = 3
    /\ (call.op = "getInt" /\ call.value = JStr(<<"-", "2">>)) => call.result.i = -2
    /\ (call.op = "getFloat64" /\ call.value = JStr(<<"1", ".", "5">>)) =>
         call.result.f = 15
    /\ (call.op = "getBool" /\ call.value = JStr(<<"t", "r", "u", "e">>)) =>
         call.result.b
    /\ (call.op = "getString" /\ call.value.t = "str") =>
         call.result.s = call.value.s

\* the kinds of answer for which queryAndSaveTradeInflow returns an error
ErrorShapes == {"fail", "code", "str"}

\* C25: The summary of a fund-flow cycle has total = the number of tokenIDs
\* the table held when the cycle read it, success + failed = total, and
\* failed = the number of assets for which queryAndSaveTradeInflow returned
\* an error. While the cycle runs, the assets done are those counted as
\* success plus those that returned an error; the first asset is an error
\* exactly when its validation failed or its answer was no answer, a
\* business code other than 200 or a payload that does not decode, and it is
\* a success when the save of a row of its list failed.
C25_SummaryCountsErrorsOnly ==
    /\ ffCycle.summary.logged =>
         /\ ffCycle.summary.total = Cardinality(ffCycle.snapshot)
         /\ ffCycle.summary.total = Len(vsTokenIDs)
         /\ ffCycle.summary.success + ffCycle.summary.failed
                = ffCycle.summary.total
         /\ ffCycle.summary.failed = ffCycle.errs
         /\ ffCycle.summary.success = successCount
    /\ (ffCycle.loaded = "ok" /\ ffPc \in {"validate", "fetch", "save", "summary"}) =>
         successCount + ffCycle.errs = ffIdx - 1
    /\ (ffCycle.loaded = "ok" /\ ffPc \in {"validate", "summary"} /\ ffIdx = 2) =>
         /\ ffCycle.errs = (IF ffCycle.vr.err \/ ffCycle.shape \in ErrorShapes
                            THEN 1 ELSE 0)
         /\ ffCycle.dberr => (successCount = 1 /\ ffCycle.errs = 0)

\* a cycle over two assets has logged success 1 and failed 1: the fetch of
\* one asset failed, and the save of a row of the other failed
C25_Witness ==
    /\ ffCycle.summary.logged
    /\ ffCycle.summary.total = 2
    /\ ffCycle.summary.success = 1
    /\ ffCycle.summary.failed = 1
    /\ ffCycle.shape = "arr"
    /\ ffCycle.dberr
    /\ ~ffCycle.upserted

\* C26: The token the fund-flow loop was launched with is the account token
\* of the startup login and never changes. A cycle begins with none of the
\* values an earlier cycle computed (its token, its list of tokenIDs, its
\* index, its count, its validated token, its list and symbol), and the
\* token handed to the validation of its first asset is the startup token.
C26_CycleStartsFromStartupToken ==
    /\ ffPc # "off" =>
         /\ accessToken = tokenPair.AccountToken
         /\ accessToken.by = "main"
    /\ ffPc \in {"sleep", "load"} =>
         /\ currentToken = NoToken
         /\ vsTokenIDs = <<>>
         /\ ffIdx = 0
         /\ successCount = 0
         /\ validToken = NoToken
         /\ tradeLeft = 0
         /\ ffSymbol = <<>>
    /\ (ffPc = "validate" /\ ffIdx = 1) =>
         /\ currentToken = tokenPair.AccountToken
         /\ successCount = 0
         /\ ffCycle.errs = 0
    /\ (ffCycle.vr.called /\ Len(ffCycle.done) = 1) =>
         ffCycle.vr.handed = tokenPair.AccountToken

\* a later cycle, begun after rows were stored and after the server expired
\* the startup token, has handed that token to its first asset
C26_Witness ==
    /\ ffPc = "fetch" /\ ffIdx = 1
    /\ flowTable # {}
    /\ ~ffCycle.upserted
    /\ ffCycle.vr.called /\ ffCycle.vr.expired
    /\ ffCycle.vr.handed = tokenPair.AccountToken
    /\ listToken.by = "list"

\* the tokenIDs of the listing table
ListedIDs == { row.VSTokenID : row \in coinTable }

\* C27: No step removes a tokenID or a row from the listing table; the table
\* changes only in a step of the listing loop's save, which leaves the
\* fund-flow loop and the flow table as they are; the read that begins a
\* fund-flow cycle returns every tokenID the table holds; and a cycle that
\* logs its summary has polled each of them.
C27_ListingTableOnlyGrows ==
    [][ /\ ListedIDs \subseteq ListedIDs'
        /\ Cardinality(coinTable') >= Cardinality(coinTable)
        /\ coinTable' # coinTable =>
             /\ listPc = "save"
             /\ ffPc' = ffPc
             /\ ffCycle' = ffCycle
             /\ flowTable' = flowTable
        /\ (ffPc = "load" /\ ffCycle'.loaded = "ok") =>
             Range(vsTokenIDs') = ListedIDs
        /\ ffCycle'.summary.logged =>
             Range(ffCycle'.done) = ffCycle'.snapshot
      ]_vars

\* the last listing cycle ended without an error and stored no row, the
\* table still holds the two assets of earlier cycles, and a fund-flow cycle
\* has polled both
C27_Witness ==
    /\ listPc = "top"
    /\ listCycle.err = "none"
    /\ listCycle.queries = 1
    /\ listCycle.ups = 0
    /\ ListedIDs = {1, 2}
    /\ ffCycle.summary.logged
    /\ Range(ffCycle.done) = {1, 2}

=============================================================================
